---- MODULE Spec2Model ----
(***************************************************************************)
(* Model of packages/core/src/vectordb/qdrant-vectordb.ts: the Qdrant     *)
(* client QdrantVectorDatabase (collection lifecycle, bounded retry,      *)
(* dense and hybrid insert, hybrid search) and the BM25Tokenizer that     *)
(* keeps the persistent term -> index vocabulary of a collection.         *)
(*                                                                         *)
(* Every public method is an async function.  A call is a process p whose *)
(* position procs[p].pc names the remote call it is suspended on; one     *)
(* action is the synchronous stretch of code between two suspensions.     *)
(* `await this.ensureInitialized()` awaits a promise that is settled      *)
(* already in the constructor and touches no shared state, so it is part  *)
(* of the stretch that follows it.                                         *)
(***************************************************************************)
EXTENDS Integers, Sequences, FiniteSets, TLC

(***************************************************************************)
(* Bounds of the model.                                                    *)
(***************************************************************************)
\* longest document batch handed to insertHybrid
MaxBatch == 2
\* largest attempt budget handed to withRetry
MaxBudget == 4

\* withRetry(operation, operationName, maxRetries = 3, initialDelay = 1000)
DefaultMaxRetries == 3
DefaultInitialDelay == 1000

\* the concurrent calls in flight through one client instance
Procs == {"p1", "p2"}

(***************************************************************************)
(* Collection names.  A name is the sequence of its '_'-separated          *)
(* segments, so that collectionName.split('_') and startsWith('hybrid_')  *)
(* are computed, not assumed: <<"hybrid","h1">> is "hybrid_h1".           *)
(***************************************************************************)
Collections == { <<"hybrid", "h1">>, <<"code", "h2">> }

(***************************************************************************)
(* Text.  A text is a sequence of lexemes as wink-nlp would segment it;   *)
(* a lexeme has a type, the length of its surface form and its normal     *)
(* form.  "space" lexemes stand for runs of white space.                  *)
(***************************************************************************)
Lexeme(type, len, normal) == [type |-> type, len |-> len, normal |-> normal]
LexFoo == Lexeme("word", 3, "foo")
LexBar == Lexeme("word", 3, "bar")
LexA == Lexeme("word", 1, "a")
LexDot == Lexeme("punctuation", 1, ".")
LexSpace == Lexeme("space", 1, " ")

Lexemes == {LexFoo, LexBar, LexA, LexDot, LexSpace}

\* the normal forms that can enter a vocabulary
Terms == {l.normal : l \in {x \in Lexemes : x.type = "word" /\ x.len >= 2}}

NoPath == << >>
ExplicitPath == <<"custom", "vocabulary.json">>

\* packages/core/src/vectordb/qdrant-vectordb.ts: getVocabularyPathFromCollection
VocabularyPathFromCollection(collectionName) ==
    LET parts == collectionName
        collectionHash == parts[Len(parts)]
    IN  <<"home", ".context", "vocabulary", collectionHash>>

AllPaths == {ExplicitPath} \cup {VocabularyPathFromCollection(c) : c \in Collections}

(***************************************************************************)
(* BM25Tokenizer: the vocabulary store.                                    *)
(***************************************************************************)
EmptyVocabulary == [t \in {} |-> 0]

\* a file of the vocabulary directory: absent, a readable snapshot, or
\* bytes that JSON.parse rejects
NoFile == [state |-> "absent", vocabulary |-> EmptyVocabulary, nextIndex |-> 0]
CorruptFile == [state |-> "corrupt", vocabulary |-> EmptyVocabulary, nextIndex |-> 0]

\* no BM25Tokenizer registered (Map.has is false)
NoStore == [live |-> FALSE, vocabulary |-> EmptyVocabulary, nextIndex |-> 0,
            vocabularyPath |-> NoPath, loaded |-> FALSE]

IndicesOf(vocabulary) == {vocabulary[t] : t \in DOMAIN vocabulary}

\* BM25Tokenizer.tokenize: word tokens of at least two characters, normalised
Tokenize(text) ==
    LET kept == SelectSeq(text, LAMBDA l : l.type = "word" /\ l.len >= 2)
    IN  [i \in 1..Len(kept) |-> kept[i].normal]

\* text.trim().length === 0
IsBlank(text) == \A i \in 1..Len(text) : text[i].type = "space"

\* the keys of termFreqs in insertion order: first occurrences of the tokens
RECURSIVE DistinctInOrder(_, _)
DistinctInOrder(tokens, seen) ==
    IF tokens = << >> THEN << >>
    ELSE IF Head(tokens) \in seen THEN DistinctInOrder(Tail(tokens), seen)
    ELSE <<Head(tokens)>> \o DistinctInOrder(Tail(tokens), seen \cup {Head(tokens)})

\* the mutant of TermFreq: a word counts once however often it occurs
TermFreqPresence(tokens, word) ==
    IF \E i \in 1..Len(tokens) : tokens[i] = word THEN 1 ELSE 0

\* termFreqs.get(word)
TermFreq(tokens, word) == Cardinality({i \in 1..Len(tokens) : tokens[i] = word})

\* if (!this.vocabulary.has(word)) this.vocabulary.set(word, this.nextIndex++)
AssignIndex(store, word) ==
    IF word \in DOMAIN store.vocabulary THEN store
    ELSE [store EXCEPT !.vocabulary =
              [t \in DOMAIN store.vocabulary \cup {word} |->
                  IF t = word THEN store.nextIndex ELSE store.vocabulary[t]],
                       !.nextIndex = store.nextIndex + 1]

\* tokenized tells whether this.tokenize(text) was called
EmptySparse(store) ==
    [store |-> store, indices |-> << >>, values |-> << >>, terms |-> << >>,
     tokenized |-> FALSE]

\* the loop over termFreqs.entries(); terms is the words in emission order
\* (it is not part of the returned vector, it names what the indices stand for)
RECURSIVE EncodeWords(_, _, _, _)
EncodeWords(store, words, tokens, acc) ==
    IF words = << >> THEN [acc EXCEPT !.store = store]
    ELSE LET word == Head(words)
             st == AssignIndex(store, word)
         IN  EncodeWords(st, Tail(words), tokens,
                 [acc EXCEPT !.indices = Append(@, st.vocabulary[word]),
                             !.values = Append(@, TermFreq(tokens, word)),
                             !.terms = Append(@, word)])

\* the mutant of GenerateSparseVector: no early return, a blank text is
\* tokenized like any other
GenerateSparseVectorNoGuard(store, text) ==
    LET tokens == Tokenize(text)
        words == DistinctInOrder(tokens, {})
        tokenized == [EmptySparse(store) EXCEPT !.tokenized = TRUE]
    IN  IF words = << >> THEN tokenized
        ELSE EncodeWords(store, words, tokens, tokenized)

\* BM25Tokenizer.generateSparseVector
GenerateSparseVector(store, text) ==
    IF Len(text) = 0 \/ IsBlank(text) THEN EmptySparse(store)
    ELSE LET tokens == Tokenize(text)
             words == DistinctInOrder(tokens, {})
             tokenized == [EmptySparse(store) EXCEPT !.tokenized = TRUE]
         IN  IF words = << >> THEN tokenized
             ELSE EncodeWords(store, words, tokens, tokenized)

\* the mutant of LoadVocabulary: the table is restored, the counter is not
LoadVocabularyNoCounter(store, files) ==
    IF store.vocabularyPath = NoPath \/ files[store.vocabularyPath].state = "absent"
    THEN store
    ELSE IF files[store.vocabularyPath].state = "corrupt"
    THEN [store EXCEPT !.vocabulary = EmptyVocabulary, !.nextIndex = 0]
    ELSE [store EXCEPT !.vocabulary = files[store.vocabularyPath].vocabulary,
                       !.loaded = TRUE]

\* the mutant of LoadVocabulary: the counter is restored, the table is not
LoadVocabularyNoTable(store, files) ==
    IF store.vocabularyPath = NoPath \/ files[store.vocabularyPath].state = "absent"
    THEN store
    ELSE IF files[store.vocabularyPath].state = "corrupt"
    THEN [store EXCEPT !.vocabulary = EmptyVocabulary, !.nextIndex = 0]
    ELSE [store EXCEPT !.nextIndex = files[store.vocabularyPath].nextIndex,
                       !.loaded = TRUE]

\* the mutant of LoadVocabulary: no try/catch, a file that cannot be read or
\* parsed ends the constructor with the error
LoadVocabularyThrows(store, files) ==
    IF store.vocabularyPath = NoPath \/ files[store.vocabularyPath].state = "absent"
    THEN store
    ELSE IF files[store.vocabularyPath].state = "corrupt"
    THEN NoStore
    ELSE [store EXCEPT !.vocabulary = files[store.vocabularyPath].vocabulary,
                       !.nextIndex = IF files[store.vocabularyPath].nextIndex # 0
                                     THEN files[store.vocabularyPath].nextIndex
                                     ELSE Cardinality(DOMAIN files[store.vocabularyPath].vocabulary),
                       !.loaded = TRUE]

\* BM25Tokenizer.loadVocabulary
LoadVocabulary(store, files) ==
    IF store.vocabularyPath = NoPath \/ files[store.vocabularyPath].state = "absent"
    THEN store
    ELSE IF files[store.vocabularyPath].state = "corrupt"
    THEN [store EXCEPT !.vocabulary = EmptyVocabulary, !.nextIndex = 0]
    ELSE LET vocabData == files[store.vocabularyPath]
         IN  [store EXCEPT !.vocabulary = vocabData.vocabulary,
                           !.nextIndex = IF vocabData.nextIndex # 0
                                         THEN vocabData.nextIndex
                                         ELSE Cardinality(DOMAIN vocabData.vocabulary),
                           !.loaded = TRUE]

\* new BM25Tokenizer(vocabularyPath)
NewTokenizer(vocabularyPath, files) ==
    LET fresh == [live |-> TRUE, vocabulary |-> EmptyVocabulary, nextIndex |-> 0,
                  vocabularyPath |-> vocabularyPath, loaded |-> FALSE]
    IN  IF vocabularyPath # NoPath THEN LoadVocabulary(fresh, files) ELSE fresh

\* BM25Tokenizer.saveVocabulary: a full rewrite of the snapshot file (the
\* timestamp field is written and never read back, it is left out)
SaveVocabulary(store, files) ==
    IF store.vocabularyPath = NoPath THEN files
    ELSE [files EXCEPT ![store.vocabularyPath] =
              [state |-> "ok", vocabulary |-> store.vocabulary,
               nextIndex |-> store.nextIndex]]

(***************************************************************************)
(* Documents, requests, errors.                                            *)
(***************************************************************************)
\* a VectorDocument: vector is "array" (a non-empty number[]), "empty" ([])
\* or "nonarray" (anything Array.isArray rejects)
Doc(id, vector, content) == [id |-> id, vector |-> vector, content |-> content]
DocFoo == Doc("d1", "array", <<LexFoo>>)
DocBarFoo == Doc("d2", "array", <<LexBar, LexSpace, LexFoo, LexDot, LexSpace, LexBar>>)
DocEmptyVector == Doc("d3", "empty", <<LexBar>>)
DocNonArray == Doc("d4", "nonarray", <<LexFoo>>)
Docs == {DocFoo, DocBarFoo, DocEmptyVector, DocNonArray}

\* the batches: sequences of distinct documents (ids are content hashes)
Batches ==
    UNION {{b \in [1..n -> Docs] : \A i, j \in 1..n : b[i] = b[j] => i = j} :
           n \in 0..MaxBatch}
InsertBatches == {<< >>, <<DocFoo>>}

\* a HybridSearchRequest: data is a number[] (kind "array", the numbers in
\* vector) or a string (kind "string", its lexemes in text)
Request(field, kind, vector, text, limit) ==
    [anns_field |-> field, kind |-> kind, vector |-> vector, text |-> text,
     limit |-> limit]
ReqDense == Request("dense", "array", <<7, 9>>, << >>, 50)
ReqVector == Request("vector", "array", <<3>>, << >>, 5)
ReqBar == Request("sparse", "string", << >>, <<LexBar>>, 5)
ReqFoo == Request("sparse", "string", << >>, <<LexFoo, LexSpace, LexA>>, 40)
RequestLists == {<< >>, <<ReqBar>>, <<ReqDense, ReqFoo>>, <<ReqVector>>}

\* an Error object: its message as a sequence of words, the place that
\* created it and the number of the remote call of the operation it ended
Error(msg, origin, serial) == [msg |-> msg, origin |-> origin, serial |-> serial]
NoError == Error(<< >>, "none", 0)

MsgAlreadyExists == <<"Collection", "already", "exists">>
MsgNotFound == <<"Collection", "not", "found">>
MsgNotFoundCapital == <<"Not", "Found">>
MsgNetwork == <<"fetch", "failed">>
MsgWrongVector == <<"Wrong", "input:", "vector", "name">>
MsgInvalidUrl == <<"Invalid", "URL">>
MsgDoesNotExist == <<"Collection", "does", "not", "exist">>
MsgNoSparse == <<"Collection", "exists", "but", "does", "not", "support", "sparse", "vectors">>
MsgNonArray == <<"Document", "has", "non-array", "vector">>
MsgEmptyVector == <<"Document", "has", "empty", "vector">>

\* String.prototype.includes, on words
Includes(msg, needle) ==
    \E i \in 1..(Len(msg) - Len(needle) + 1) :
        SubSeq(msg, i, i + Len(needle) - 1) = needle

\* what a remote call settles with: fulfilled (with an update status where
\* the call has one) or rejected with an error message
Fulfilled(status) == [ok |-> TRUE, status |-> status, msg |-> << >>]
Rejected(msg) == [ok |-> FALSE, status |-> "none", msg |-> msg]

\* every way a remote call can settle
Outcomes ==
    {Fulfilled(st) : st \in {"none", "acknowledged", "completed", "unknown"}} \cup
    {Rejected(m) : m \in {MsgAlreadyExists, MsgNotFound, MsgNotFoundCapital,
                          MsgNetwork, MsgWrongVector}}

(***************************************************************************)
(* The helpers that touch neither the service nor the registry:            *)
(* buildExtensionFilter, buildPathFilter, generateId.                      *)
(***************************************************************************)
\* longest extension list handed to buildExtensionFilter
MaxExtensions == 2

\* the argument of a helper: given is FALSE for undefined or null; list is
\* the array and text the string it is called with
Arg(given, list, text) == [given |-> given, list |-> list, text |-> text]
NoArg == Arg(FALSE, << >>, "")

\* a filter object: {} has no must key, else must is the list of conditions
Filter(hasMust, must) == [hasMust |-> hasMust, must |-> must]
\* {}
NoFilter == Filter(FALSE, << >>)
\* { key, match: { any } } and { key, match: { value } }
MatchAny(key, any) == [key |-> key, match |-> "any", any |-> any, value |-> ""]
MatchValue(key, value) == [key |-> key, match |-> "value", any |-> << >>, value |-> value]

\* buildExtensionFilter
BuildExtensionFilter(extensions) ==
    IF ~extensions.given \/ Len(extensions.list) = 0 THEN NoFilter
    ELSE Filter(TRUE, <<MatchAny("fileExtension", extensions.list)>>)

\* the mutant of BuildPathFilter: no early return
BuildPathFilterNoGuard(relativePath) ==
    Filter(TRUE, <<MatchValue("relativePath", relativePath.text)>>)

\* buildPathFilter
BuildPathFilter(relativePath) ==
    IF ~relativePath.given \/ relativePath.text = "" THEN NoFilter
    ELSE Filter(TRUE, <<MatchValue("relativePath", relativePath.text)>>)

Extensions == {".ts", ".py", ""}
ExtensionLists ==
    {Arg(TRUE, l, "") : l \in UNION {[1..n -> Extensions] : n \in 0..MaxExtensions}}
        \cup {NoArg}
Paths == {Arg(TRUE, << >>, t) : t \in {"", "src/utils.ts", "a b"}} \cup {NoArg}

\* md5("") = d41d8cd98f00b204e9800998ecf8427e
DigestEmpty ==
    <<"d", "4", "1", "d", "8", "c", "d", "9", "8", "f", "0", "0", "b", "2", "0", "4", "e", "9", "8", "0", "0", "9", "9", "8", "e", "c", "f", "8", "4", "2", "7", "e">>
\* md5("src/a.ts:1-2:foo") = 0d3edcf9513832e36ac99787fee41a0d
DigestFoo ==
    <<"0", "d", "3", "e", "d", "c", "f", "9", "5", "1", "3", "8", "3", "2", "e", "3", "6", "a", "c", "9", "9", "7", "8", "7", "f", "e", "e", "4", "1", "a", "0", "d">>
\* md5("src/a.ts:1-2:bar") = 41c90caba14fedad27a8436ea5853e8a
DigestBar ==
    <<"4", "1", "c", "9", "0", "c", "a", "b", "a", "1", "4", "f", "e", "d", "a", "d", "2", "7", "a", "8", "4", "3", "6", "e", "a", "5", "8", "5", "3", "e", "8", "a">>

OriginalIds == {"", "src/a.ts:1-2:foo", "src/a.ts:1-2:bar"}

\* crypto.createHash('md5').update(originalId).digest('hex'), as the
\* sequence of its 32 hexadecimal digits
Md5Hex(originalId) ==
    CASE originalId = "" -> DigestEmpty
      [] originalId = "src/a.ts:1-2:foo" -> DigestFoo
      [] originalId = "src/a.ts:1-2:bar" -> DigestBar

\* hash.substring(start, end)
Substring(hash, start, end) == SubSeq(hash, start + 1, end)

\* the mutant of GenerateId: the digest is salted with the number of calls
\* the helper has served
GenerateIdSalted(originalId, served) ==
    LET hash == Md5Hex(originalId)
        salt == IF served % 2 = 0 THEN "0" ELSE "1"
    IN  Substring(hash, 0, 8) \o <<"-">> \o Substring(hash, 8, 12) \o <<"-">> \o
        Substring(hash, 12, 16) \o <<"-">> \o Substring(hash, 16, 20) \o <<"-">> \o
        Substring(hash, 20, 31) \o <<salt>>

\* generateId; served, the number of calls made before, is not read
GenerateId(originalId, served) ==
    LET hash == Md5Hex(originalId)
    IN  Substring(hash, 0, 8) \o <<"-">> \o Substring(hash, 8, 12) \o <<"-">> \o
        Substring(hash, 12, 16) \o <<"-">> \o Substring(hash, 16, 20) \o <<"-">> \o
        Substring(hash, 20, 32)

(***************************************************************************)
(* State.                                                                  *)
(***************************************************************************)
VARIABLES
    config,      \* QdrantConfig: url, vocabularyPath, indexing.hnsw,
                 \* quantization, indexing.sparse
    client,      \* this.client and this.initializationPromise: state is "ready",
                 \* or "failed" when initialize() threw; starts counts the
                 \* calls of initialize() on this instance
    tokenizers,  \* this.tokenizers: collection -> BM25Tokenizer or NoStore
    disk,        \* the files of the vocabulary directory
    remote,      \* the Qdrant service: the kind of each collection and the
                 \* (term, index) pairs upserted into it since it was created
    procs,       \* the calls in flight
    yielded      \* history: the indices generateSparseVector has returned to
                 \* the calls of the client for each term of each collection,
                 \* over all sessions

vars == <<config, client, tokenizers, disk, remote, procs, yielded>>

\* QdrantHNSWConfig (config.indexing.hnsw): given is FALSE when the object is
\* not configured; a number 0 stands for a field that is falsy or not given
Hnsw(given, m, ef_construct, full_scan_threshold, on_disk) ==
    [given |-> given, m |-> m, ef_construct |-> ef_construct,
     full_scan_threshold |-> full_scan_threshold, on_disk |-> on_disk]
NoHnsw == Hnsw(FALSE, 0, 0, 0, FALSE)

\* QdrantQuantizationConfig (config.quantization): type "none" when it is not
\* configured; quantile in hundredths, 0 when not given
Quantization(type, quantile, always_ram) ==
    [type |-> type, quantile |-> quantile, always_ram |-> always_ram]
NoQuantization == Quantization("none", 0, FALSE)

\* QdrantSparseIndexConfig (config.indexing.sparse): on_disk is "unset",
\* "true" or "false", datatype "unset" or the datatype
SparseIndex(on_disk, datatype) == [on_disk |-> on_disk, datatype |-> datatype]
NoSparseIndex == SparseIndex("unset", "unset")

\* a key that the request object does not have
Absent == [absent |-> TRUE]

\* SearchOptions / HybridSearchOptions: the result limit (topK, limit) and
\* filterExpr; 0 and "" stand for the falsy values, a field that is not
\* given included
Options(limit, filterExpr) == [limit |-> limit, filterExpr |-> filterExpr]
NoOptions == Options(0, "")
OptionSets == {NoOptions, Options(5, "f1")}

\* a || b on numbers
OrElse(a, b) == IF a = 0 THEN b ELSE a

\* no sparse vector returned yet, and no snapshot written yet
NoVector == [indices |-> << >>, values |-> << >>, terms |-> << >>, tokenized |-> FALSE]
NoSnapshot == [written |-> FALSE, vocabulary |-> EmptyVocabulary, nextIndex |-> 0]

\* no request object built yet
NoPayload == [call |-> "none"]

\* a call that has not started: its position, arguments, locals and result
\* what a hybrid insert finds when it is called: the table and the counter
\* getTokenizer would give it, and the vocabulary file
NoBefore == [vocabulary |-> EmptyVocabulary, nextIndex |-> 0, file |-> NoFile]

IdleProc ==
    [pc |-> "idle", op |-> "none", coll |-> << >>, docs |-> << >>,
     ids |-> << >>, dimension |-> 0, requests |-> << >>, options |-> NoOptions, points |-> << >>,
     payload |-> NoPayload, calls |-> << >>,
     maxRetries |-> 0, initialDelay |-> 0, attempt |-> 0, delay |-> 0,
     delays |-> << >>,
     outcome |-> "none", ret |-> "none", error |-> NoError,
     rejected |-> NoError, evicted |-> FALSE, saves |-> 0, status |-> "none",
     text |-> << >>, encoded |-> NoVector, seen |-> "none", saved |-> NoSnapshot,
     received |-> << >>, results |-> << >>,
     input |-> NoArg, filter |-> NoFilter, uuid |-> << >>, before |-> NoBefore]

Start(op, collectionName) == [IdleProc EXCEPT !.op = op, !.coll = collectionName]
\* the call ends: its locals are gone, its arguments and result are kept
Return(pr, ret) ==
    [pr EXCEPT !.pc = "done", !.outcome = "ok", !.ret = ret, !.points = << >>,
               !.payload = NoPayload, !.before = NoBefore]
Raise(pr, err) ==
    [pr EXCEPT !.pc = "done", !.outcome = "error", !.error = err, !.points = << >>,
               !.payload = NoPayload]
\* the call issues a remote request and suspends on it
Issue(pr, call, pc) == [pr EXCEPT !.calls = Append(@, call), !.pc = pc]
\* the same, with the request object handed to the remote call
IssueWith(pr, call, pc, payload) == [Issue(pr, call, pc) EXCEPT !.payload = payload]
\* the error a rejected remote request raises in the call
RemoteError(pr, out) == Error(out.msg, pr.calls[Len(pr.calls)], Len(pr.calls))

\* the remote call the call is suspended on settles: rejected keeps the
\* error object of the last remote call of the call that was rejected
Settle(pr, out) == IF out.ok THEN pr ELSE [pr EXCEPT !.rejected = RemoteError(pr, out)]

\* the mutant of Rethrow: the catch block throws a new error with the message
\* of the one it caught
RethrowWrapped(pr, out) ==
    Raise(Settle(pr, out), Error(out.msg, pr.op, Len(pr.calls)))

\* the remote call is rejected inside try { ... } catch (error) { log; throw
\* error }: the call raises the error object it caught
Rethrow(pr, out) == Raise(Settle(pr, out), RemoteError(pr, out))

CanCall(p) == procs[p].pc \in {"idle", "done"}

\* the constructor: this.initializationPromise = this.initialize().  The body
\* of initialize has no await, it has run when the constructor returns;
\* new QdrantClient(...) throws on a malformed url
Initialize(cfg) ==
    [state |-> IF cfg.url = "malformed" THEN "failed" ELSE "ready", starts |-> 1]

\* the mutant of EnsureInitialized: every call initializes the client again
EnsureInitializedAgain(cl) == [cl EXCEPT !.starts = @ + 1]

\* ensureInitialized: the promise of the constructor is awaited, nothing is
\* assigned
EnsureInitialized(cl) == cl

\* ensureInitialized passes
Initialized == client.state = "ready"
InitError == Error(MsgInvalidUrl, "initialize", 0)

NoPoints == {}

Init ==
    /\ config \in [url : {"http", "malformed"}, vocabularyPath : {NoPath, ExplicitPath},
                    hnsw : {NoHnsw}, quantization : {NoQuantization},
                    sparse : {NoSparseIndex}]
    /\ client = Initialize(config)
    /\ tokenizers = [c \in Collections |-> NoStore]
    /\ disk = [f \in AllPaths |-> NoFile]
    /\ remote = [c \in Collections |-> [kind |-> "none", points |-> NoPoints]]
    /\ procs = [p \in Procs |-> IdleProc]
    /\ yielded = [c \in Collections |-> [t \in Terms |-> {}]]

\* QdrantVectorDatabase.getTokenizer: the registry after the call; the
\* tokenizer it returns is the entry of collectionName
\* the mutant of GetTokenizer: no registry lookup, every call constructs a
\* store of its own
GetTokenizerOwn(toks, collectionName) ==
    LET vocabularyPath == IF config.vocabularyPath # NoPath
                          THEN config.vocabularyPath
                          ELSE VocabularyPathFromCollection(collectionName)
    IN  [toks EXCEPT ![collectionName] = NewTokenizer(vocabularyPath, disk)]

GetTokenizer(toks, collectionName) ==
    IF ~toks[collectionName].live
    THEN LET vocabularyPath == IF config.vocabularyPath # NoPath
                               THEN config.vocabularyPath
                               ELSE VocabularyPathFromCollection(collectionName)
         IN  [toks EXCEPT ![collectionName] = NewTokenizer(vocabularyPath, disk)]
    ELSE toks

\* history: enc is what generateSparseVector returned for collectionName
Yield(y, collectionName, enc) ==
    [y EXCEPT ![collectionName] =
        [t \in Terms |->
            @[t] \cup {enc.indices[i] : i \in {j \in 1..Len(enc.terms) : enc.terms[j] = t}}]]

(***************************************************************************)
(* The Qdrant service, as far as the client observes it.                   *)
(***************************************************************************)
Exists(collectionName) == remote[collectionName].kind # "none"

\* client.getCollection(name)
GetCollectionOutcomes(collectionName) ==
    IF Exists(collectionName)
    THEN {Fulfilled("none"), Rejected(MsgNetwork)}
    ELSE {Rejected(MsgNotFound), Rejected(MsgNetwork)}

\* client.upsert(name, {points}) of points with named dense and sparse vectors
HybridUpsertOutcomes(collectionName) ==
    IF remote[collectionName].kind = "hybrid"
    THEN {Fulfilled("acknowledged"), Fulfilled("completed"), Fulfilled("unknown"),
          Rejected(MsgNetwork)}
    ELSE IF Exists(collectionName)
    THEN {Rejected(MsgWrongVector), Rejected(MsgNetwork)}
    ELSE {Rejected(MsgNotFound), Rejected(MsgNetwork)}

\* client.upsert(name, {points}) of points with one unnamed vector
DenseUpsertOutcomes(collectionName) ==
    IF remote[collectionName].kind = "dense"
    THEN {Fulfilled("completed"), Rejected(MsgNetwork)}
    ELSE IF Exists(collectionName)
    THEN {Rejected(MsgWrongVector), Rejected(MsgNetwork)}
    ELSE {Rejected(MsgNotFound), Rejected(MsgNetwork)}

\* client.deleteCollection(name)
DeleteCollectionOutcomes(collectionName) ==
    IF Exists(collectionName)
    THEN {Fulfilled("none"), Rejected(MsgNetwork)}
    ELSE {Fulfilled("none"), Rejected(MsgNotFoundCapital), Rejected(MsgNetwork)}

\* client.createCollection(name, config)
CreateCollectionOutcomes(collectionName) ==
    IF Exists(collectionName)
    THEN {Rejected(MsgAlreadyExists), Rejected(MsgNetwork)}
    ELSE {Fulfilled("none"), Rejected(MsgNetwork)}

\* client.query(name, request)
QueryOutcomes(collectionName) ==
    IF Exists(collectionName)
    THEN {Fulfilled("none"), Rejected(MsgNetwork)}
    ELSE {Rejected(MsgNotFound), Rejected(MsgNetwork)}

\* client.search(name, request): a collection of named vectors has no default
\* vector space, a collection of one unnamed vector has no named one
SearchOutcomes(collectionName, using) ==
    IF ~Exists(collectionName) THEN {Rejected(MsgNotFound), Rejected(MsgNetwork)}
    ELSE IF (remote[collectionName].kind = "hybrid") = (using = "dense")
    THEN {Fulfilled("none"), Rejected(MsgNetwork)}
    ELSE {Rejected(MsgWrongVector), Rejected(MsgNetwork)}

\* the (term, index) pairs of the sparse vectors of a batch of points
PairsOf(points) ==
    UNION {{<<points[k].terms[i], points[k].indices[i]>> : i \in 1..Len(points[k].terms)} :
           k \in 1..Len(points)}

(***************************************************************************)
(* hasCollection                                                           *)
(***************************************************************************)
\* hasCollection up to its getCollection probe; ensureInitialized is outside
\* the try block
CallHasCollection(p, collectionName) ==
    /\ CanCall(p)
    /\ procs' = [procs EXCEPT ![p] =
          IF ~Initialized THEN Raise(Start("hasCollection", collectionName), InitError)
          ELSE Issue(Start("hasCollection", collectionName), "getCollection", "hc_probe")]
    /\ client' = EnsureInitialized(client)
    /\ UNCHANGED <<config, tokenizers, disk, remote, yielded>>

\* the probe settles: true when it fulfilled, false on any rejection
HasCollectionReturn(p, out) ==
    /\ procs[p].pc = "hc_probe"
    /\ out \in GetCollectionOutcomes(procs[p].coll)
    /\ procs' = [procs EXCEPT ![p] =
          Return(Settle(@, out), IF out.ok THEN "true" ELSE "false")]
    /\ UNCHANGED <<config, client, tokenizers, disk, remote, yielded>>

(***************************************************************************)
(* dropCollection                                                          *)
(***************************************************************************)
CallDropCollection(p, collectionName) ==
    /\ CanCall(p)
    /\ procs' = [procs EXCEPT ![p] =
          IF ~Initialized THEN Raise(Start("dropCollection", collectionName), InitError)
          ELSE Issue(Start("dropCollection", collectionName), "deleteCollection", "dc_delete")]
    /\ client' = EnsureInitialized(client)
    /\ UNCHANGED <<config, tokenizers, disk, remote, yielded>>

\* the mutant of Evict: the whole registry is cleared
EvictAll(toks, collectionName) == [c \in Collections |-> NoStore]

\* if (this.tokenizers.has(name)) this.tokenizers.delete(name)
Evict(toks, collectionName) ==
    IF toks[collectionName].live THEN [toks EXCEPT ![collectionName] = NoStore] ELSE toks

\* deleteCollection settles; on success the tokenizer is evicted from memory
DropCollectionReturn(p, out) ==
    /\ procs[p].pc = "dc_delete"
    /\ out \in DeleteCollectionOutcomes(procs[p].coll)
    /\ IF out.ok
       THEN /\ remote' = [remote EXCEPT ![procs[p].coll] = [kind |-> "none", points |-> NoPoints]]
            /\ tokenizers' = Evict(tokenizers, procs[p].coll)
            /\ procs' = [procs EXCEPT ![p] =
                  Return([@ EXCEPT !.evicted = tokenizers[procs[p].coll].live], "void")]
       ELSE /\ procs' = [procs EXCEPT ![p] = Rethrow(@, out)]
            /\ UNCHANGED <<remote, tokenizers>>
    /\ UNCHANGED <<config, client, disk, yielded>>

(***************************************************************************)
(* insert (dense)                                                          *)
(***************************************************************************)
CallInsert(p, collectionName, documents) ==
    /\ CanCall(p)
    /\ procs' = [procs EXCEPT ![p] =
          LET call == [Start("insert", collectionName) EXCEPT !.docs = documents]
          IN  IF Len(documents) = 0 THEN Return(call, "void")
              ELSE IF ~Initialized THEN Raise(call, InitError)
              ELSE Issue(call, "getCollection", "in_probe")]
    /\ client' = IF Len(documents) = 0 THEN client ELSE EnsureInitialized(client)
    /\ UNCHANGED <<config, tokenizers, disk, remote, yielded>>

\* hasCollection settles: the points are built and upserted, or the call
\* raises "does not exist"
InsertProbeReturn(p, out) ==
    /\ procs[p].pc = "in_probe"
    /\ out \in GetCollectionOutcomes(procs[p].coll)
    /\ procs' = [procs EXCEPT ![p] =
          IF out.ok THEN Issue(@, "upsert", "in_upsert")
          ELSE Raise(Settle(@, out), Error(MsgDoesNotExist, "insert", Len(@.calls)))]
    /\ UNCHANGED <<config, client, tokenizers, disk, remote, yielded>>

\* client.upsert settles; it was called directly, so a rejection is raised
InsertUpsertReturn(p, out) ==
    /\ procs[p].pc = "in_upsert"
    /\ out \in DenseUpsertOutcomes(procs[p].coll)
    /\ procs' = [procs EXCEPT ![p] =
          IF out.ok THEN Return(@, "void") ELSE Rethrow(@, out)]
    /\ UNCHANGED <<config, client, tokenizers, disk, remote, yielded>>

(***************************************************************************)
(* insertHybrid                                                            *)
(***************************************************************************)
CallInsertHybrid(p, collectionName, documents) ==
    /\ CanCall(p)
    /\ procs' = [procs EXCEPT ![p] =
          LET found == GetTokenizer(tokenizers, collectionName)[collectionName]
              call == [Start("insertHybrid", collectionName) EXCEPT
                          !.docs = documents,
                          !.before = [vocabulary |-> found.vocabulary,
                                      nextIndex |-> found.nextIndex,
                                      file |-> disk[found.vocabularyPath]]]
          IN  IF Len(documents) = 0 THEN Return(call, "void")
              ELSE IF ~Initialized THEN Raise(call, InitError)
              ELSE Issue(call, "getCollection", "ih_probe")]
    /\ client' = IF Len(documents) = 0 THEN client ELSE EnsureInitialized(client)
    /\ UNCHANGED <<config, tokenizers, disk, remote, yielded>>

\* hasCollection settles: the collection metadata is fetched next, or the
\* call raises "does not exist"
InsertHybridProbeReturn(p, out) ==
    /\ procs[p].pc = "ih_probe"
    /\ out \in GetCollectionOutcomes(procs[p].coll)
    /\ procs' = [procs EXCEPT ![p] =
          IF out.ok THEN Issue(@, "getCollection", "ih_info")
          ELSE Raise(Settle(@, out), Error(MsgDoesNotExist, "insertHybrid", Len(@.calls)))]
    /\ UNCHANGED <<config, client, tokenizers, disk, remote, yielded>>

\* the mutant of MapDocuments: a document that fails validation is left out
\* and the rest of the batch goes on
RECURSIVE MapDocumentsSkipping(_, _, _, _)
MapDocumentsSkipping(acc, collectionName, documents, index) ==
    IF index > Len(documents) THEN acc
    ELSE LET doc == documents[index]
         IN  IF doc.vector # "array"
             THEN MapDocumentsSkipping(acc, collectionName, documents, index + 1)
             ELSE LET toks == GetTokenizer(acc.tokenizers, collectionName)
                      enc == GenerateSparseVector(toks[collectionName], doc.content)
                  IN  MapDocumentsSkipping(
                          [acc EXCEPT !.tokenizers = [toks EXCEPT ![collectionName] = enc.store],
                                      !.yielded = Yield(@, collectionName, enc),
                                      !.points = Append(@, [id |-> doc.id,
                                                            indices |-> enc.indices,
                                                            values |-> enc.values,
                                                            terms |-> enc.terms])],
                          collectionName, documents, index + 1)

\* documents.map(...): the documents are validated and encoded in order; a
\* document that fails validation throws out of the map, after the documents
\* before it went through the tokenizer
RECURSIVE MapDocuments(_, _, _, _)
MapDocuments(acc, collectionName, documents, index) ==
    IF index > Len(documents) THEN acc
    ELSE LET doc == documents[index]
         IN  IF doc.vector = "nonarray"
             THEN [acc EXCEPT !.error = Error(MsgNonArray, "insertHybrid", index)]
             ELSE IF doc.vector = "empty"
             THEN [acc EXCEPT !.error = Error(MsgEmptyVector, "insertHybrid", index)]
             ELSE LET toks == GetTokenizer(acc.tokenizers, collectionName)
                      enc == GenerateSparseVector(toks[collectionName], doc.content)
                  IN  MapDocuments(
                          [acc EXCEPT !.tokenizers = [toks EXCEPT ![collectionName] = enc.store],
                                      !.yielded = Yield(@, collectionName, enc),
                                      !.points = Append(@, [id |-> doc.id,
                                                            indices |-> enc.indices,
                                                            values |-> enc.values,
                                                            terms |-> enc.terms])],
                          collectionName, documents, index + 1)

\* the metadata arrives: sparse support is checked, the points are built and
\* the upsert is issued
InsertHybridInfoReturn(p, out) ==
    /\ procs[p].pc = "ih_info"
    /\ out \in GetCollectionOutcomes(procs[p].coll)
    /\ LET pr == procs[p]
           hasSparseName == remote[pr.coll].kind = "hybrid"
           mapped == MapDocuments([tokenizers |-> tokenizers, yielded |-> yielded,
                                   points |-> << >>, error |-> NoError],
                                  pr.coll, pr.docs, 1)
       IN  IF ~out.ok
           THEN /\ procs' = [procs EXCEPT ![p] = Rethrow(@, out)]
                /\ UNCHANGED <<tokenizers, yielded>>
           ELSE IF ~hasSparseName
           THEN /\ procs' = [procs EXCEPT ![p] =
                      Raise(@, Error(MsgNoSparse, "insertHybrid", Len(@.calls)))]
                /\ UNCHANGED <<tokenizers, yielded>>
           ELSE /\ tokenizers' = mapped.tokenizers
                /\ yielded' = mapped.yielded
                /\ procs' = [procs EXCEPT ![p] =
                      IF mapped.error # NoError THEN Raise(@, mapped.error)
                      ELSE Issue([@ EXCEPT !.points = mapped.points], "upsert", "ih_upsert")]
    /\ UNCHANGED <<config, client, disk, remote>>

\* the mutant of Acknowledged: any response of the upsert will do
AcknowledgedAny(result) == TRUE

\* result && (result.status === 'acknowledged' || result.status === 'completed')
Acknowledged(result) == result.status \in {"acknowledged", "completed"}

\* client.upsert settles (it was called directly): on an acknowledged or
\* completed status the points count is fetched, any other response ends
\* the call without a save, a rejection is raised; status is the status of
\* the response
InsertHybridUpsertReturn(p, out) ==
    /\ procs[p].pc = "ih_upsert"
    /\ out \in HybridUpsertOutcomes(procs[p].coll)
    /\ IF ~out.ok
       THEN /\ procs' = [procs EXCEPT ![p] = Rethrow(@, out)]
            /\ UNCHANGED remote
       ELSE IF Acknowledged(out)
       THEN /\ remote' = [remote EXCEPT ![procs[p].coll].points =
                              @ \cup PairsOf(procs[p].points)]
            /\ procs' = [procs EXCEPT ![p] =
                  Issue([@ EXCEPT !.status = out.status], "getCollection", "ih_verify")]
       ELSE /\ procs' = [procs EXCEPT ![p] =
                  Return([@ EXCEPT !.status = out.status], "void")]
            /\ UNCHANGED remote
    /\ UNCHANGED <<config, client, tokenizers, disk, yielded>>

\* the points count arrives (or fails, which is only logged): the tokenizer
\* is looked up again and its vocabulary saved
InsertHybridVerifyReturn(p, out) ==
    /\ procs[p].pc = "ih_verify"
    /\ out \in GetCollectionOutcomes(procs[p].coll)
    /\ LET toks == GetTokenizer(tokenizers, procs[p].coll)
       IN  /\ tokenizers' = toks
           /\ disk' = SaveVocabulary(toks[procs[p].coll], disk)
    /\ procs' = [procs EXCEPT ![p] =
          Return([Settle(procs[p], out) EXCEPT !.saves = @ + 1], "void")]
    /\ UNCHANGED <<config, client, remote, yielded>>

(***************************************************************************)
(* The points a search returns and the results they are mapped to.         *)
(***************************************************************************)
\* most points in one response of the service
MaxPoints == 2

\* a point id: an unsigned integer or a UUID string, text is what toString()
\* gives
PointId(kind, text) == [kind |-> kind, text |-> text]
\* point.id.toString()
IdToString(id) == id.text

\* the value of a payload key: values are told apart by the key and the point
\* they belong to
ValueOf(key, of) == [key |-> key, of |-> of]
\* what reading a key the object does not have gives
Undefined == ValueOf("undefined", "undefined")

\* a payload: the keys it has, each with its value
PayloadOf(of, keys) == [k \in keys |-> ValueOf(k, of)]
\* point.payload || {}
EmptyPayload == PayloadOf("none", {})

\* a ScoredPoint; hasPayload is FALSE when payload is null or undefined,
\* score 0 stands for a score that is 0 or not given
ScoredPoint(id, score, hasPayload, payload) ==
    [id |-> id, score |-> score, hasPayload |-> hasPayload, payload |-> payload]

KnownFields == {"content", "relativePath", "startLine", "endLine", "fileExtension"}

PtFull == ScoredPoint(PointId("string", "d1"), 90, TRUE,
                      PayloadOf("d1", KnownFields \cup {"language", "chunkIndex"}))
PtPlain == ScoredPoint(PointId("number", "7"), 95, TRUE, PayloadOf("7", KnownFields))
PtPartial == ScoredPoint(PointId("string", "d2"), 0, TRUE,
                         PayloadOf("d2", {"content", "vector", "id"}))
PtBare == ScoredPoint(PointId("number", "9"), 40, FALSE, EmptyPayload)
ScoredPoints == {PtFull, PtPlain, PtPartial, PtBare}

PointLists == UNION {[1..n -> ScoredPoints] : n \in 0..MaxPoints}

\* what client.query resolves with: an array of points, an object with the
\* points, or an object without a points key
QueryResponse(shape, points) == [shape |-> shape, points |-> points]
QueryResponses ==
    {QueryResponse(sh, l) : sh \in {"array", "object"}, l \in PointLists}
        \cup {QueryResponse("nopoints", << >>)}

\* Array.isArray(queryResult) ? queryResult : queryResult.points || []
PointsOf(queryResult) ==
    IF queryResult.shape = "array" THEN queryResult.points
    ELSE IF queryResult.shape = "object" THEN queryResult.points
    ELSE << >>

\* point.payload?.key
PayloadField(point, key) ==
    IF point.hasPayload /\ key \in DOMAIN point.payload
    THEN point.payload[key] ELSE Undefined

\* the mutant of ExtractMetadata: the payload is handed on whole
ExtractMetadataAll(payload) == payload

\* extractMetadata: the rest of the destructuring that takes the five fields
\* out
ExtractMetadata(payload) ==
    [k \in DOMAIN payload \ KnownFields |-> payload[k]]

\* the object result.map builds for one point
ToResult(point) ==
    [document |->
        [id |-> IdToString(point.id),
         vector |-> << >>,
         content |-> PayloadField(point, "content"),
         relativePath |-> PayloadField(point, "relativePath"),
         startLine |-> PayloadField(point, "startLine"),
         endLine |-> PayloadField(point, "endLine"),
         fileExtension |-> PayloadField(point, "fileExtension"),
         metadata |-> ExtractMetadata(IF point.hasPayload THEN point.payload
                                      ELSE EmptyPayload)],
     score |-> OrElse(point.score, 0)]

\* result.map(point => ...)
MapResults(points) == [i \in 1..Len(points) |-> ToResult(points[i])]

\* the responses of the specifications that are not about the results
FewPointLists == {<<PtFull>>}
FewQueryResponses == {QueryResponse("object", <<PtFull>>)}

(***************************************************************************)
(* search (dense only)                                                     *)
(***************************************************************************)
\* collectionName.startsWith('hybrid_')
StartsWithHybrid(collectionName) ==
    Len(collectionName) >= 2 /\ collectionName[1] = "hybrid"

\* searchRequest: the query vector goes to the vector named "dense" when the
\* collection name starts with 'hybrid_', else to the default vector
SearchRequest(collectionName, options) ==
    LET isHybridCollection == StartsWithHybrid(collectionName)
    IN  [call |-> "search",
         using |-> IF isHybridCollection THEN "dense" ELSE "default",
         vector |-> "array",
         limit |-> OrElse(options.limit, 10),
         filter |-> options.filterExpr]

\* search up to client.search
CallSearch(p, collectionName, options) ==
    /\ CanCall(p)
    /\ procs' = [procs EXCEPT ![p] =
          LET call == [Start("search", collectionName) EXCEPT !.options = options]
          IN  IF ~Initialized THEN Raise(call, InitError)
              ELSE IssueWith(call, "search", "sr_search",
                             SearchRequest(collectionName, options))]
    /\ client' = EnsureInitialized(client)
    /\ UNCHANGED <<config, tokenizers, disk, remote, yielded>>

\* client.search settles: the points are mapped to results, or the error is
\* logged and thrown again
SearchReturn(p, out, result) ==
    /\ procs[p].pc = "sr_search"
    /\ out \in SearchOutcomes(procs[p].coll, procs[p].payload.using)
    /\ procs' = [procs EXCEPT ![p] =
          IF out.ok
          THEN Return([@ EXCEPT !.received = result,
                                !.results = MapResults(result)], "results")
          ELSE Rethrow(@, out)]
    /\ UNCHANGED <<config, client, tokenizers, disk, remote, yielded>>

(***************************************************************************)
(* hybridSearch                                                            *)
(***************************************************************************)
\* the mutant of Max: no floor, the first argument is the pool size
MaxFirst(a, b) == a

Max(a, b) == IF a >= b THEN a ELSE b

\* the loop over searchRequests: one prefetch query per request; a request on
\* another field than 'vector' or 'dense' is encoded by the tokenizer.  (The
\* `await` in front of generateSparseVector awaits a plain value: the loop
\* resumes in the next microtask with no remote call in between.)  terms is
\* not part of the query, it names what the indices stand for.
RECURSIVE BuildPrefetch(_, _, _, _)
BuildPrefetch(acc, collectionName, searchRequests, i) ==
    IF i > Len(searchRequests) THEN acc
    ELSE LET request == searchRequests[i]
             isDenseVector == request.anns_field = "vector" \/ request.anns_field = "dense"
         IN  IF isDenseVector
             THEN LET queryVector == IF request.kind = "array" THEN request.vector ELSE << >>
                  IN  BuildPrefetch(
                          [acc EXCEPT !.prefetchQueries =
                               Append(@, [query |-> queryVector,
                                          using |-> "dense",
                                          limit |-> Max(request.limit * 3, 100),
                                          terms |-> << >>])],
                          collectionName, searchRequests, i + 1)
             ELSE LET queryText == IF request.kind = "string" THEN request.text ELSE << >>
                      toks == GetTokenizer(acc.tokenizers, collectionName)
                      enc == GenerateSparseVector(toks[collectionName], queryText)
                  IN  BuildPrefetch(
                          [acc EXCEPT !.tokenizers = [toks EXCEPT ![collectionName] = enc.store],
                                      !.yielded = Yield(@, collectionName, enc),
                                      !.prefetchQueries =
                                          Append(@, [query |-> [indices |-> enc.indices,
                                                                values |-> enc.values],
                                                     using |-> "sparse",
                                                     limit |-> Max(request.limit * 3, 100),
                                                     terms |-> enc.terms])],
                          collectionName, searchRequests, i + 1)

\* the mutant of QueryRequest: the filter of the caller is left out
QueryRequestNoFilter(prefetchQueries, options) ==
    [call |-> "query", prefetch |-> prefetchQueries, fusion |-> "rrf",
     limit |-> OrElse(options.limit, 10), filter |-> ""]

\* queryRequest: the prefetch queries, RRF fusion, the final limit and the
\* filter ("" when the request has no filter key)
QueryRequest(prefetchQueries, options) ==
    [call |-> "query", prefetch |-> prefetchQueries, fusion |-> "rrf",
     limit |-> OrElse(options.limit, 10), filter |-> options.filterExpr]

\* the mutant of NoSearchRequests: an empty list is not told apart
NoSearchRequestsNever(searchRequests) == FALSE

\* searchRequests.length === 0
NoSearchRequests(searchRequests) == Len(searchRequests) = 0

\* hybridSearch up to client.query
CallHybridSearch(p, collectionName, searchRequests, options) ==
    /\ CanCall(p)
    /\ LET call == [Start("hybridSearch", collectionName) EXCEPT
                        !.requests = searchRequests, !.options = options]
           built == BuildPrefetch([tokenizers |-> tokenizers, yielded |-> yielded,
                                   prefetchQueries |-> << >>],
                                  collectionName, searchRequests, 1)
       IN  IF ~Initialized
           THEN /\ procs' = [procs EXCEPT ![p] = Raise(call, InitError)]
                /\ UNCHANGED <<tokenizers, yielded>>
           ELSE IF NoSearchRequests(searchRequests)
           THEN /\ procs' = [procs EXCEPT ![p] = Return(call, "empty")]
                /\ UNCHANGED <<tokenizers, yielded>>
           ELSE /\ tokenizers' = built.tokenizers
                /\ yielded' = built.yielded
                /\ procs' = [procs EXCEPT ![p] =
                      IssueWith(call, "query", "hs_query",
                                QueryRequest(built.prefetchQueries, options))]
    /\ client' = EnsureInitialized(client)
    /\ UNCHANGED <<config, disk, remote>>

\* client.query settles
HybridSearchReturn(p, out, queryResult) ==
    /\ procs[p].pc = "hs_query"
    /\ out \in QueryOutcomes(procs[p].coll)
    /\ procs' = [procs EXCEPT ![p] =
          IF out.ok
          THEN LET result == PointsOf(queryResult)
               IN  Return([@ EXCEPT !.received = result,
                                    !.results = MapResults(result)], "results")
          ELSE Rethrow(@, out)]
    /\ UNCHANGED <<config, client, tokenizers, disk, remote, yielded>>

(***************************************************************************)
(* listCollections, delete, query                                          *)
(***************************************************************************)
\* client.getCollections()
GetCollectionsOutcomes == {Fulfilled("none"), Rejected(MsgNetwork)}

\* client.delete(name, {points}) and client.scroll(name, params)
PointsOutcomes(collectionName) ==
    IF Exists(collectionName)
    THEN {Fulfilled("completed"), Rejected(MsgNetwork)}
    ELSE {Rejected(MsgNotFound), Rejected(MsgNetwork)}

\* listCollections up to client.getCollections
CallListCollections(p) ==
    /\ CanCall(p)
    /\ procs' = [procs EXCEPT ![p] =
          IF ~Initialized THEN Raise(Start("listCollections", << >>), InitError)
          ELSE Issue(Start("listCollections", << >>), "getCollections", "lc_list")]
    /\ client' = EnsureInitialized(client)
    /\ UNCHANGED <<config, tokenizers, disk, remote, yielded>>

\* client.getCollections settles
ListCollectionsReturn(p, out) ==
    /\ procs[p].pc = "lc_list"
    /\ out \in GetCollectionsOutcomes
    /\ procs' = [procs EXCEPT ![p] =
          IF out.ok THEN Return(@, "names") ELSE Rethrow(@, out)]
    /\ UNCHANGED <<config, client, tokenizers, disk, remote, yielded>>

\* delete up to client.delete; an empty list of ids returns at once
CallDelete(p, collectionName, ids) ==
    /\ CanCall(p)
    /\ procs' = [procs EXCEPT ![p] =
          LET call == [Start("delete", collectionName) EXCEPT !.ids = ids]
          IN  IF Len(ids) = 0 THEN Return(call, "void")
              ELSE IF ~Initialized THEN Raise(call, InitError)
              ELSE IssueWith(call, "delete", "dl_delete",
                             [call |-> "delete", points |-> ids])]
    /\ client' = IF Len(ids) = 0 THEN client ELSE EnsureInitialized(client)
    /\ UNCHANGED <<config, tokenizers, disk, remote, yielded>>

\* client.delete settles
DeleteReturn(p, out) ==
    /\ procs[p].pc = "dl_delete"
    /\ out \in PointsOutcomes(procs[p].coll)
    /\ procs' = [procs EXCEPT ![p] =
          IF out.ok THEN Return(@, "void") ELSE Rethrow(@, out)]
    /\ UNCHANGED <<config, client, tokenizers, disk, remote, yielded>>

\* scrollParams: the limit, and the filter if it has a key ("" stands for a
\* filter that is not given or is {})
ScrollParams(options) ==
    [call |-> "scroll", limit |-> OrElse(options.limit, 100),
     filter |-> options.filterExpr, with_vector |-> FALSE]

\* query up to client.scroll
CallQuery(p, collectionName, options) ==
    /\ CanCall(p)
    /\ procs' = [procs EXCEPT ![p] =
          LET call == [Start("query", collectionName) EXCEPT !.options = options]
          IN  IF ~Initialized THEN Raise(call, InitError)
              ELSE IssueWith(call, "scroll", "qr_scroll", ScrollParams(options))]
    /\ client' = EnsureInitialized(client)
    /\ UNCHANGED <<config, tokenizers, disk, remote, yielded>>

\* client.scroll settles
QueryReturn(p, out) ==
    /\ procs[p].pc = "qr_scroll"
    /\ out \in PointsOutcomes(procs[p].coll)
    /\ procs' = [procs EXCEPT ![p] =
          IF out.ok THEN Return(@, "records") ELSE Rethrow(@, out)]
    /\ UNCHANGED <<config, client, tokenizers, disk, remote, yielded>>

(***************************************************************************)
(* withRetry, and the two create calls that go through it                  *)
(***************************************************************************)
\* lastError.message.includes('already exists') || ...includes('not found')
IsTerminal(msg) ==
    Includes(msg, <<"already", "exists">>) \/ Includes(msg, <<"not", "found">>)

\* withRetry is entered: delay = initialDelay, attempt = 1, and the operation
\* is invoked if the loop condition attempt <= maxRetries holds
WithRetryStart(call, operation, maxRetries, initialDelay) ==
    LET pr == [call EXCEPT !.maxRetries = maxRetries, !.initialDelay = initialDelay,
                           !.delay = initialDelay, !.attempt = 1]
    IN  IF 1 <= maxRetries THEN Issue(pr, operation, "rt_op")
        ELSE Raise(pr, NoError)

\* the mutant of HnswBlock: a field that is not given is sent as it is
HnswBlockNoDefaults(hnswConfig) ==
    [m |-> hnswConfig.m, ef_construct |-> hnswConfig.ef_construct,
     full_scan_threshold |-> hnswConfig.full_scan_threshold,
     on_disk |-> hnswConfig.on_disk]

\* vectorConfig.hnsw_config = { m: hnswConfig.m || 16, ... }
HnswBlock(hnswConfig) ==
    [m |-> OrElse(hnswConfig.m, 16),
     ef_construct |-> OrElse(hnswConfig.ef_construct, 100),
     full_scan_threshold |-> OrElse(hnswConfig.full_scan_threshold, 10000),
     on_disk |-> hnswConfig.on_disk \/ FALSE]

\* vectorConfig.quantization_config, for the types scalar and binary
QuantizationBlock(quantConfig) ==
    IF quantConfig.type = "scalar"
    THEN [scalar |-> [type |-> "int8", quantile |-> OrElse(quantConfig.quantile, 99),
                      always_ram |-> quantConfig.always_ram \/ FALSE]]
    ELSE IF quantConfig.type = "binary"
    THEN [binary |-> [always_ram |-> quantConfig.always_ram \/ FALSE]]
    ELSE Absent

\* vectorConfig / denseVectorConfig: size and distance, the HNSW block if
\* config.indexing.hnsw is set, the quantization block if config.quantization is
VectorConfig(cfg, dimension) ==
    [size |-> dimension, distance |-> "Cosine",
     hnsw_config |-> IF cfg.hnsw.given THEN HnswBlock(cfg.hnsw) ELSE Absent,
     quantization_config |-> IF cfg.quantization.type # "none"
                             THEN QuantizationBlock(cfg.quantization) ELSE Absent]

\* sparseVectorConfig: the IDF modifier and the index options
SparseVectorConfig(cfg) ==
    [modifier |-> "idf",
     index |-> [on_disk |-> IF cfg.sparse.on_disk = "unset" THEN TRUE
                            ELSE cfg.sparse.on_disk = "true",
                datatype |-> IF cfg.sparse.datatype # "unset"
                             THEN [value |-> cfg.sparse.datatype] ELSE Absent]]

\* collectionConfig of createCollection and of createHybridCollection
CollectionConfig(cfg, kind, dimension) ==
    IF kind = "hybrid"
    THEN [call |-> "createCollection",
          vectors |-> [dense |-> VectorConfig(cfg, dimension)],
          sparse_vectors |-> [sparse |-> SparseVectorConfig(cfg)],
          shard_number |-> 1, replication_factor |-> 1]
    ELSE [call |-> "createCollection",
          vectors |-> VectorConfig(cfg, dimension),
          sparse_vectors |-> Absent,
          shard_number |-> 1, replication_factor |-> 1]

\* createCollection (kind "dense") and createHybridCollection (kind "hybrid")
\* up to the first attempt of client.createCollection
CallCreateCollection(p, collectionName, kind, dimension) ==
    /\ CanCall(p)
    /\ procs' = [procs EXCEPT ![p] =
          LET call == [Start(IF kind = "hybrid" THEN "createHybridCollection"
                             ELSE "createCollection", collectionName)
                          EXCEPT !.dimension = dimension,
                                 !.payload = CollectionConfig(config, kind, dimension)]
          IN  IF ~Initialized THEN Raise(call, InitError)
              ELSE WithRetryStart(call, "createCollection",
                                  DefaultMaxRetries, DefaultInitialDelay)]
    /\ client' = EnsureInitialized(client)
    /\ UNCHANGED <<config, tokenizers, disk, remote, yielded>>

\* the mutant of RetryOnError: terminal errors are retried like any other
RetryOnErrorNoTerminal(pr, lastError) ==
    IF pr.attempt = pr.maxRetries
    THEN Raise(pr, lastError)
    ELSE [pr EXCEPT !.error = lastError, !.delays = Append(@, pr.delay), !.pc = "rt_sleep"]

\* the mutant of RetryOnError: the last attempt is followed by a delay too
RetryOnErrorSleepLast(pr, lastError) ==
    IF IsTerminal(lastError.msg)
    THEN Raise(pr, lastError)
    ELSE IF pr.attempt = pr.maxRetries
    THEN Raise([pr EXCEPT !.delays = Append(@, pr.delay)], lastError)
    ELSE [pr EXCEPT !.error = lastError, !.delays = Append(@, pr.delay), !.pc = "rt_sleep"]

\* the catch block of withRetry: raise, or start the timer for this delay
RetryOnError(pr, lastError) ==
    IF IsTerminal(lastError.msg) \/ pr.attempt = pr.maxRetries
    THEN Raise(pr, lastError)
    ELSE [pr EXCEPT !.error = lastError, !.delays = Append(@, pr.delay), !.pc = "rt_sleep"]

\* an attempt of the operation settles
RetryOperationReturn(p, out) ==
    /\ procs[p].pc = "rt_op"
    /\ IF out.ok
       THEN /\ remote' = [remote EXCEPT ![procs[p].coll].kind =
                              IF procs[p].op = "createHybridCollection"
                              THEN "hybrid" ELSE "dense"]
            /\ procs' = [procs EXCEPT ![p] = Return([@ EXCEPT !.error = NoError], "void")]
       ELSE /\ procs' = [procs EXCEPT ![p] =
                  RetryOnError(Settle(@, out), RemoteError(@, out))]
            /\ UNCHANGED remote
    /\ UNCHANGED <<config, client, tokenizers, disk, yielded>>

\* an attempt of client.createCollection settles
CreateCollectionReturn(p, out) ==
    /\ procs[p].pc = "rt_op"
    /\ out \in CreateCollectionOutcomes(procs[p].coll)
    /\ RetryOperationReturn(p, out)

\* the mutant of NextDelay: the delay is not doubled
NextDelayConstant(pr) == pr.delay

\* delay *= 2
NextDelay(pr) == pr.delay * 2

\* the timer fires: the delay doubles and the loop goes to its next attempt
RetryWake(p) ==
    /\ procs[p].pc = "rt_sleep"
    /\ procs' = [procs EXCEPT ![p] =
          LET pr == [procs[p] EXCEPT !.delay = NextDelay(procs[p]), !.attempt = @ + 1]
          IN  IF pr.attempt <= pr.maxRetries
              THEN Issue(pr, pr.calls[Len(pr.calls)], "rt_op")
              ELSE Raise(pr, pr.error)]
    /\ UNCHANGED <<config, client, tokenizers, disk, remote, yielded>>

(***************************************************************************)
(* The process is restarted: the registry and the calls in flight are      *)
(* gone, the files and the service stay.                                   *)
(***************************************************************************)
Restart ==
    /\ \/ \E c \in Collections : tokenizers[c].live
       \/ \E p \in Procs : procs[p].pc # "idle"
    /\ client' = Initialize(config)
    /\ tokenizers' = [c \in Collections |-> NoStore]
    /\ procs' = [p \in Procs |-> IdleProc]
    /\ UNCHANGED <<config, disk, remote, yielded>>

\* the calls of the sequential specification are made one after the other
Callers == {"p1"}
\* the collection the calls of the sequential specification work on
Served == {<<"hybrid", "h1">>}

Next ==
    \/ \E p \in Callers, c \in Served : CallHasCollection(p, c)
    \/ \E p \in Callers : \E out \in Outcomes :
           HasCollectionReturn(p, out)
    \/ \E p \in Callers, c \in Served : CallDropCollection(p, c)
    \/ \E p \in Callers : \E out \in Outcomes :
           DropCollectionReturn(p, out)
    \/ \E p \in Callers, c \in Served, d \in InsertBatches : CallInsert(p, c, d)
    \/ \E p \in Callers : \E out \in Outcomes :
           InsertProbeReturn(p, out)
    \/ \E p \in Callers : \E out \in Outcomes :
           InsertUpsertReturn(p, out)
    \/ \E p \in Callers, c \in Served, d \in Batches : CallInsertHybrid(p, c, d)
    \/ \E p \in Callers : \E out \in Outcomes :
           InsertHybridProbeReturn(p, out)
    \/ \E p \in Callers : \E out \in Outcomes :
           InsertHybridInfoReturn(p, out)
    \/ \E p \in Callers : \E out \in Outcomes :
           InsertHybridUpsertReturn(p, out)
    \/ \E p \in Callers : \E out \in Outcomes :
           InsertHybridVerifyReturn(p, out)
    \/ \E p \in Callers, c \in Served, o \in OptionSets : CallSearch(p, c, o)
    \/ \E p \in Callers : \E out \in Outcomes, r \in FewPointLists :
           SearchReturn(p, out, r)
    \/ \E p \in Callers, c \in Served, r \in RequestLists, o \in OptionSets :
           CallHybridSearch(p, c, r, o)
    \/ \E p \in Callers : \E out \in Outcomes, r \in FewQueryResponses :
           HybridSearchReturn(p, out, r)
    \/ \E p \in Callers, c \in Served, k \in {"dense", "hybrid"} :
           CallCreateCollection(p, c, k, 768)
    \/ \E p \in Callers : \E out \in Outcomes :
           CreateCollectionReturn(p, out)
    \/ \E p \in Callers : RetryWake(p)
    \/ \E p \in Callers : CallListCollections(p)
    \/ \E p \in Callers : \E out \in Outcomes :
           ListCollectionsReturn(p, out)
    \/ \E p \in Callers, c \in Served, ids \in {<< >>, <<"d1">>} : CallDelete(p, c, ids)
    \/ \E p \in Callers : \E out \in Outcomes :
           DeleteReturn(p, out)
    \/ \E p \in Callers, c \in Served, o \in OptionSets : CallQuery(p, c, o)
    \/ \E p \in Callers : \E out \in Outcomes :
           QueryReturn(p, out)
    \/ Restart

Spec == Init /\ [][Next]_vars

(***************************************************************************)
(* withRetry on its own: every attempt budget and initial delay, and an    *)
(* operation that may settle in any way at each attempt.                   *)
(***************************************************************************)
Budgets == 1..MaxBudget
InitialDelays == {DefaultInitialDelay, 250}

InitRetry ==
    /\ config = [url |-> "http", vocabularyPath |-> NoPath, hnsw |-> NoHnsw,
                 quantization |-> NoQuantization, sparse |-> NoSparseIndex]
    /\ client = Initialize(config)
    /\ tokenizers = [c \in Collections |-> NoStore]
    /\ disk = [f \in AllPaths |-> NoFile]
    /\ remote = [c \in Collections |-> [kind |-> "none", points |-> NoPoints]]
    /\ \E op \in {"createCollection", "createHybridCollection"}, c \in Served,
          m \in Budgets, d \in InitialDelays :
          procs = [p \in Procs |->
                      IF p \in Callers
                      THEN WithRetryStart(Start(op, c), "createCollection", m, d)
                      ELSE IdleProc]
    /\ yielded = [c \in Collections |-> [t \in Terms |-> {}]]

NextRetry ==
    \/ \E p \in Procs : \E out \in Outcomes : RetryOperationReturn(p, out)
    \/ \E p \in Procs : RetryWake(p)

SpecRetry == InitRetry /\ [][NextRetry]_vars

(***************************************************************************)
(* Two hybrid collections served by one client: hybrid inserts, lexical    *)
(* searches, drops and restarts.                                            *)
(***************************************************************************)
\* the hybrid inserts and the hybrid searches of this specification
TwoInserts == {[coll |-> <<"hybrid", "h1">>, docs |-> <<DocFoo>>],
               [coll |-> <<"code", "h2">>, docs |-> <<DocBarFoo>>]}
TwoSearches == {[coll |-> c, requests |-> <<ReqBar>>] : c \in Collections}

InitTwo ==
    /\ config \in [url : {"http"}, vocabularyPath : {NoPath, ExplicitPath},
                    hnsw : {NoHnsw}, quantization : {NoQuantization},
                    sparse : {NoSparseIndex}]
    /\ client = Initialize(config)
    /\ tokenizers = [c \in Collections |-> NoStore]
    /\ disk = [f \in AllPaths |-> NoFile]
    /\ remote = [c \in Collections |-> [kind |-> "hybrid", points |-> NoPoints]]
    /\ procs = [p \in Procs |-> IdleProc]
    /\ yielded = [c \in Collections |-> [t \in Terms |-> {}]]

NextTwo ==
    \/ \E p \in Callers, i \in TwoInserts : CallInsertHybrid(p, i.coll, i.docs)
    \/ \E p \in Callers : \E out \in Outcomes : InsertHybridProbeReturn(p, out)
    \/ \E p \in Callers : \E out \in Outcomes : InsertHybridInfoReturn(p, out)
    \/ \E p \in Callers : \E out \in Outcomes : InsertHybridUpsertReturn(p, out)
    \/ \E p \in Callers : \E out \in Outcomes : InsertHybridVerifyReturn(p, out)
    \/ \E p \in Callers, c \in Collections : CallSearch(p, c, NoOptions)
    \/ \E p \in Callers : \E out \in Outcomes, r \in FewPointLists :
           SearchReturn(p, out, r)
    \/ \E p \in Callers, s \in TwoSearches :
           CallHybridSearch(p, s.coll, s.requests, NoOptions)
    \/ \E p \in Callers : \E out \in Outcomes, r \in FewQueryResponses :
           HybridSearchReturn(p, out, r)
    \/ \E p \in Callers, c \in Collections : CallDropCollection(p, c)
    \/ \E p \in Callers : \E out \in Outcomes : DropCollectionReturn(p, out)
    \/ Restart

SpecTwo == InitTwo /\ [][NextTwo]_vars

(***************************************************************************)
(* Two calls in flight through one client, on one hybrid collection: they  *)
(* interleave at their remote calls.                                       *)
(***************************************************************************)
\* the hybrid inserts of this specification
ConcInserts == {<<DocFoo>>, <<DocBarFoo>>}

InitConc ==
    /\ config \in [url : {"http", "malformed"}, vocabularyPath : {NoPath},
                    hnsw : {NoHnsw}, quantization : {NoQuantization},
                    sparse : {NoSparseIndex}]
    /\ client = Initialize(config)
    /\ tokenizers = [c \in Collections |-> NoStore]
    /\ disk = [f \in AllPaths |-> NoFile]
    /\ remote = [c \in Collections |->
                    [kind |-> IF c \in Served THEN "hybrid" ELSE "none",
                     points |-> NoPoints]]
    /\ procs = [p \in Procs |-> IdleProc]
    /\ yielded = [c \in Collections |-> [t \in Terms |-> {}]]

NextConc ==
    \/ \E p \in Procs, c \in Served : CallHasCollection(p, c)
    \/ \E p \in Procs : \E out \in Outcomes : HasCollectionReturn(p, out)
    \/ \E p \in Procs, c \in Served, d \in ConcInserts : CallInsertHybrid(p, c, d)
    \/ \E p \in Procs : \E out \in Outcomes : InsertHybridProbeReturn(p, out)
    \/ \E p \in Procs : \E out \in Outcomes : InsertHybridInfoReturn(p, out)
    \/ \E p \in Procs : \E out \in Outcomes : InsertHybridUpsertReturn(p, out)
    \/ \E p \in Procs : \E out \in Outcomes : InsertHybridVerifyReturn(p, out)
    \/ \E p \in Procs, c \in Served : CallDropCollection(p, c)
    \/ \E p \in Procs : \E out \in Outcomes : DropCollectionReturn(p, out)

SpecConc == InitConc /\ [][NextConc]_vars

(***************************************************************************)
(* Collection lifecycle under every index configuration: creates of both   *)
(* kinds through withRetry, and drops.                                      *)
(***************************************************************************)
HnswConfigs == {NoHnsw, Hnsw(TRUE, 0, 0, 0, FALSE), Hnsw(TRUE, 32, 0, 0, TRUE)}
QuantizationConfigs ==
    {NoQuantization, Quantization("scalar", 0, FALSE), Quantization("binary", 0, TRUE)}
SparseIndexConfigs == {NoSparseIndex, SparseIndex("false", "uint8")}
Dimensions == {768, 4}

InitCreate ==
    /\ config \in [url : {"http"}, vocabularyPath : {NoPath}, hnsw : HnswConfigs,
                    quantization : QuantizationConfigs, sparse : SparseIndexConfigs]
    /\ client = Initialize(config)
    /\ tokenizers = [c \in Collections |-> NoStore]
    /\ disk = [f \in AllPaths |-> NoFile]
    /\ remote = [c \in Collections |-> [kind |-> "none", points |-> NoPoints]]
    /\ procs = [p \in Procs |-> IdleProc]
    /\ yielded = [c \in Collections |-> [t \in Terms |-> {}]]

NextCreate ==
    \/ \E p \in Callers, c \in Served, k \in {"dense", "hybrid"}, d \in Dimensions :
           CallCreateCollection(p, c, k, d)
    \/ \E p \in Callers : \E out \in Outcomes : CreateCollectionReturn(p, out)
    \/ \E p \in Callers : RetryWake(p)
    \/ \E p \in Callers, c \in Served : CallDropCollection(p, c)
    \/ \E p \in Callers : \E out \in Outcomes : DropCollectionReturn(p, out)

SpecCreate == InitCreate /\ [][NextCreate]_vars

(***************************************************************************)
(* One BM25Tokenizer and the file it keeps its vocabulary in: the store is *)
(* constructed (anew, as after a restart or an eviction), encodes texts    *)
(* and is saved, while its file may be cut short or removed.               *)
(***************************************************************************)
\* longest text handed to generateSparseVector, in lexemes
MaxText == 2

Texts == UNION {[1..n -> Lexemes] : n \in 0..MaxText}

\* the path the client constructs the tokenizer of a collection with
TokenizerPath(collectionName) ==
    IF config.vocabularyPath # NoPath THEN config.vocabularyPath
    ELSE VocabularyPathFromCollection(collectionName)

InitStore ==
    /\ config \in [url : {"http"}, vocabularyPath : {NoPath},
                    hnsw : {NoHnsw}, quantization : {NoQuantization},
                    sparse : {NoSparseIndex}]
    /\ client = Initialize(config)
    /\ tokenizers = [c \in Collections |-> NoStore]
    /\ disk = [f \in AllPaths |-> NoFile]
    /\ remote = [c \in Collections |-> [kind |-> "none", points |-> NoPoints]]
    /\ procs = [p \in Procs |-> IdleProc]
    /\ yielded = [c \in Collections |-> [t \in Terms |-> {}]]

\* new BM25Tokenizer(vocabularyPath): seen is the state of the file the
\* constructor found, saved is kept from a saveVocabulary that came right
\* before
TokenizerConstruct(p, collectionName) ==
    /\ CanCall(p)
    /\ LET store == NewTokenizer(TokenizerPath(collectionName), disk)
           call == [Start("BM25Tokenizer", collectionName) EXCEPT
                       !.pc = "done", !.saved = procs[p].saved,
                       !.seen = disk[TokenizerPath(collectionName)].state]
       IN  /\ tokenizers' = [tokenizers EXCEPT ![collectionName] = store]
           /\ procs' = [procs EXCEPT ![p] =
                 IF store.live THEN [call EXCEPT !.outcome = "ok"]
                 ELSE [call EXCEPT !.outcome = "error"]]
    /\ UNCHANGED <<config, client, disk, remote, yielded>>

\* tokenizer.generateSparseVector(text), called on the store itself
TokenizerGenerateSparseVector(p, collectionName, text) ==
    /\ CanCall(p)
    /\ tokenizers[collectionName].live
    /\ LET enc == GenerateSparseVector(tokenizers[collectionName], text)
       IN  /\ tokenizers' = [tokenizers EXCEPT ![collectionName] = enc.store]
           /\ procs' = [procs EXCEPT ![p] =
                 [Start("generateSparseVector", collectionName) EXCEPT
                     !.pc = "done", !.outcome = "ok", !.text = text,
                     !.encoded = [indices |-> enc.indices, values |-> enc.values,
                                  terms |-> enc.terms, tokenized |-> enc.tokenized]]]
    /\ UNCHANGED <<config, client, disk, remote, yielded>>

\* tokenizer.saveVocabulary(): saved is the table and the counter of the store
\* at the time of the call
TokenizerSaveVocabulary(p, collectionName) ==
    /\ CanCall(p)
    /\ tokenizers[collectionName].live
    /\ disk' = SaveVocabulary(tokenizers[collectionName], disk)
    /\ procs' = [procs EXCEPT ![p] =
          [Start("saveVocabulary", collectionName) EXCEPT
              !.pc = "done", !.outcome = "ok",
              !.saved = [written |-> TRUE,
                         vocabulary |-> tokenizers[collectionName].vocabulary,
                         nextIndex |-> tokenizers[collectionName].nextIndex]]]
    /\ UNCHANGED <<config, client, tokenizers, remote, yielded>>

\* the file is cut short (a write that did not finish) or cannot be read any
\* more: readFileSync, JSON.parse or Object.entries will throw
SnapshotCorrupted(f) ==
    /\ disk[f].state = "ok"
    /\ disk' = [disk EXCEPT ![f] = CorruptFile]
    /\ UNCHANGED <<config, client, tokenizers, remote, procs, yielded>>

\* the file is removed
SnapshotRemoved(f) ==
    /\ disk[f].state # "absent"
    /\ disk' = [disk EXCEPT ![f] = NoFile]
    /\ UNCHANGED <<config, client, tokenizers, remote, procs, yielded>>

NextStore ==
    \/ \E p \in Callers, c \in Served : TokenizerConstruct(p, c)
    \/ \E p \in Callers, c \in Served, text \in Texts :
           TokenizerGenerateSparseVector(p, c, text)
    \/ \E p \in Callers, c \in Served : TokenizerSaveVocabulary(p, c)
    \/ \E c \in Served : SnapshotCorrupted(TokenizerPath(c))
    \/ \E c \in Served : SnapshotRemoved(TokenizerPath(c))

SpecStore == InitStore /\ [][NextStore]_vars

(***************************************************************************)
(* Properties.                                                             *)
(***************************************************************************)
\* the path under which the client keeps the vocabulary of a collection
PathOf(collectionName) ==
    IF config.vocabularyPath # NoPath THEN config.vocabularyPath
    ELSE VocabularyPathFromCollection(collectionName)

\* the snapshot file of the collection holds term -> index
Persisted(files, collectionName, pair) ==
    /\ files[PathOf(collectionName)].state = "ok"
    /\ pair[1] \in DOMAIN files[PathOf(collectionName)].vocabulary
    /\ files[PathOf(collectionName)].vocabulary[pair[1]] = pair[2]

\* the message contains "already exists" or "not found"
SaysTerminal(msg) ==
    \/ \E i \in 1..Len(msg) - 1 : msg[i] = "already" /\ msg[i + 1] = "exists"
    \/ \E i \in 1..Len(msg) - 1 : msg[i] = "not" /\ msg[i + 1] = "found"

\* the calls that are inside withRetry, or have left it
InRetry(pr) == pr.maxRetries > 0

RECURSIVE Pow2(_)
Pow2(n) == IF n = 0 THEN 1 ELSE 2 * Pow2(n - 1)

NumberOf(calls, name) == Cardinality({i \in 1..Len(calls) : calls[i] = name})

HasInvalidVector(documents) ==
    \E i \in 1..Len(documents) : documents[i].vector \in {"empty", "nonarray"}

\* C1: vocabulary stability.  Over all the sessions of a client, and whatever
\* hybrid inserts and hybrid searches came before a reload, generateSparseVector
\* never returns two different indices for the same term of a collection.
C1_VocabularyStability ==
    \A c \in Collections : \A t \in Terms : Cardinality(yielded[c][t]) <= 1

\* C2: within one BM25Tokenizer a term keeps its index, no two terms share an
\* index, nextIndex never decreases and is greater than every index of the
\* table.  (No step of the model evicts a tokenizer and registers another for
\* the same collection, so a tokenizer that is live before and after a step
\* is the same object.)
C2_StoreInvariant ==
    \A c \in Collections :
        LET st == tokenizers[c]
        IN  st.live =>
                /\ \A t, u \in DOMAIN st.vocabulary :
                       st.vocabulary[t] = st.vocabulary[u] => t = u
                /\ \A t \in DOMAIN st.vocabulary :
                       st.vocabulary[t] >= 0 /\ st.vocabulary[t] < st.nextIndex

C2_StoreStep ==
    \A c \in Collections :
        (tokenizers[c].live /\ tokenizers'[c].live) =>
            /\ \A t \in DOMAIN tokenizers[c].vocabulary :
                   /\ t \in DOMAIN tokenizers'[c].vocabulary
                   /\ tokenizers'[c].vocabulary[t] = tokenizers[c].vocabulary[t]
            /\ tokenizers'[c].nextIndex >= tokenizers[c].nextIndex

\* C2: the invariant of the table holds in every state and every step keeps
\* the indices assigned so far and does not lower nextIndex
C2_IndexNeverReused == []C2_StoreInvariant /\ [][C2_StoreStep]_vars

\* a tokenizer that was loaded from a snapshot has assigned an index to a
\* term the snapshot does not hold
C2_Witness ==
    \E c \in Collections :
        LET st == tokenizers[c]
        IN  /\ st.live /\ st.loaded
            /\ disk[st.vocabularyPath].state = "ok"
            /\ DOMAIN disk[st.vocabularyPath].vocabulary # {}
            /\ DOMAIN disk[st.vocabularyPath].vocabulary # DOMAIN st.vocabulary
            /\ DOMAIN disk[st.vocabularyPath].vocabulary \subseteq DOMAIN st.vocabulary

\* C3: the persisted vocabulary is per collection.  A term -> index pair that
\* was upserted into a collection and is in that collection's snapshot stays
\* in it, whichever collection's vocabulary is saved, with an explicitly
\* configured vocabulary path as with a derived one.
C3_PerCollectionVocabulary ==
    [][\A c \in Collections : \A pair \in remote[c].points :
           (pair \in remote'[c].points /\ Persisted(disk, c, pair))
               => Persisted(disk', c, pair)]_vars

\* C4: an attempt that fails with an error whose message contains "already
\* exists" or "not found" ends withRetry with that error: no delay follows it
\* and no further attempt; on attempt 1 the operation was invoked once.
C4_TerminalNotRetried ==
    \A p \in Procs :
        LET pr == procs[p]
        IN  (InRetry(pr) /\ pr.error # NoError /\ SaysTerminal(pr.error.msg)) =>
                /\ pr.pc = "done" /\ pr.outcome = "error"
                /\ pr.error.serial = Len(pr.calls)
                /\ Len(pr.delays) = Len(pr.calls) - 1

\* a terminal failure of the first attempt was raised
C4_Witness ==
    \E p \in Procs :
        /\ InRetry(procs[p]) /\ procs[p].pc = "done" /\ procs[p].outcome = "error"
        /\ procs[p].error.msg = MsgAlreadyExists
        /\ Len(procs[p].calls) = 1 /\ procs[p].delays = << >>

\* C5: the i-th delay of withRetry is initialDelay * 2^(i-1), and a call that
\* returns after j failed attempts has slept exactly j times.
C5_BackoffSchedule ==
    \A p \in Procs :
        LET pr == procs[p]
        IN  InRetry(pr) =>
                /\ \A i \in 1..Len(pr.delays) :
                       pr.delays[i] = pr.initialDelay * Pow2(i - 1)
                /\ (pr.pc = "done" /\ pr.outcome = "ok") =>
                       Len(pr.delays) = Len(pr.calls) - 1

\* the defaults: attempts 1 and 2 fail, attempt 3 succeeds, after 1000 and 2000
C5_Witness ==
    \E p \in Procs :
        /\ procs[p].maxRetries = DefaultMaxRetries
        /\ procs[p].initialDelay = DefaultInitialDelay
        /\ procs[p].pc = "done" /\ procs[p].outcome = "ok"
        /\ Len(procs[p].calls) = 3
        /\ procs[p].delays = <<1000, 2000>>

\* C6: withRetry invokes the operation at most maxRetries times and ends by
\* returning or by raising the error of the last attempt made; when every
\* attempt fails with a non-terminal error there are maxRetries attempts and
\* maxRetries - 1 delays.
C6_RetryExhaustion ==
    \A p \in Procs :
        LET pr == procs[p]
        IN  InRetry(pr) =>
                /\ Len(pr.calls) <= pr.maxRetries
                /\ pr.pc = "done" =>
                       \/ pr.outcome = "ok" /\ pr.ret = "void"
                       \/ /\ pr.outcome = "error"
                          /\ pr.error.origin = "createCollection"
                          /\ pr.error.serial = Len(pr.calls)
                          /\ ~SaysTerminal(pr.error.msg) =>
                                 /\ Len(pr.calls) = pr.maxRetries
                                 /\ Len(pr.delays) = pr.maxRetries - 1

\* a budget of more than two attempts was used up by transient failures
C6_Witness ==
    \E p \in Procs :
        /\ InRetry(procs[p]) /\ procs[p].pc = "done" /\ procs[p].outcome = "error"
        /\ procs[p].error.msg = MsgNetwork
        /\ procs[p].maxRetries > 2
        /\ Len(procs[p].calls) = procs[p].maxRetries

\* C7: the upsert of insert and insertHybrid goes through withRetry: a call
\* that raises a transient upsert error has attempted the upsert as often as
\* the budget allows.
C7_UpsertRetried ==
    \A p \in Procs :
        LET pr == procs[p]
        IN  (/\ pr.op \in {"insert", "insertHybrid"}
             /\ pr.pc = "done" /\ pr.outcome = "error"
             /\ pr.error.origin = "upsert" /\ ~SaysTerminal(pr.error.msg))
                => NumberOf(pr.calls, "upsert") = DefaultMaxRetries

\* C8: an insertHybrid call whose batch holds a document with an empty or
\* non-array vector issues no remote call and raises the validation error.
C8_ValidationBeforeRemote ==
    \A p \in Procs :
        LET pr == procs[p]
        IN  (pr.op = "insertHybrid" /\ HasInvalidVector(pr.docs)) =>
                /\ pr.calls = << >>
                /\ pr.pc = "done" =>
                       /\ pr.outcome = "error"
                       /\ pr.error.msg \in {MsgNonArray, MsgEmptyVector}

\* C9: hasCollection never raises: it returns a boolean, true only for a
\* collection whose probe succeeded.
C9_HasCollectionNeverRaises ==
    \A p \in Procs :
        LET pr == procs[p]
        IN  (pr.op = "hasCollection" /\ pr.pc = "done") =>
                /\ pr.outcome = "ok"
                /\ pr.ret \in {"true", "false"}
                /\ pr.ret = "true" => Exists(pr.coll)

\* C10: a drop that completes leaves no tokenizer registered for the dropped
\* collection, leaves the other collections' tokenizers as they were and
\* leaves every vocabulary file as it was.
C10_DropEvictsOnlyItsHandle ==
    [][\A p \in Procs :
          (procs[p].pc = "dc_delete" /\ procs'[p].pc = "done" /\ procs'[p].outcome = "ok")
              => /\ ~tokenizers'[procs[p].coll].live
                 /\ \A c \in Collections \ {procs[p].coll} : tokenizers'[c] = tokenizers[c]
                 /\ disk' = disk]_vars

\* a drop evicted a tokenizer whose snapshot is on disk, while the tokenizer
\* of another collection is registered
C10_Witness ==
    \E p \in Procs :
        /\ procs[p].op = "dropCollection" /\ procs[p].pc = "done"
        /\ procs[p].outcome = "ok" /\ procs[p].evicted
        /\ ~tokenizers[procs[p].coll].live
        /\ disk[PathOf(procs[p].coll)].state = "ok"
        /\ \E c \in Collections \ {procs[p].coll} : tokenizers[c].live

\* C11: initialization is single-flight.  initialize() has been started once
\* on the client instance, whatever calls are in flight, and a call that has
\* issued a remote call found the initialization completed.
C11_SingleFlightInit ==
    /\ client.starts = 1
    /\ \A p \in Procs : procs[p].calls # << >> => client.state = "ready"

\* two calls are suspended on remote calls at the same time
C11_Witness ==
    /\ client.starts = 1
    /\ procs["p1"].pc \notin {"idle", "done"}
    /\ procs["p2"].pc \notin {"idle", "done"}
    /\ procs["p1"].op # procs["p2"].op
    /\ Len(procs["p1"].calls) > 1

\* C12: search on a collection that was created hybrid addresses the vector
\* space named "dense", whatever the name of the collection; on a collection
\* that was created dense-only it addresses the default vector space.
C12_SearchAddressesDenseSpace ==
    \A p \in Procs :
        LET pr == procs[p]
        IN  (pr.op = "search" /\ pr.pc = "sr_search") =>
                /\ remote[pr.coll].kind = "hybrid" => pr.payload.using = "dense"
                /\ remote[pr.coll].kind = "dense" => pr.payload.using = "default"

\* C13: default HNSW config.  A dense create under a configuration with no
\* HNSW and no quantization options sends a payload whose vector space has
\* size = dimension, distance Cosine and the HNSW block m = 16,
\* ef_construct = 100, full_scan_threshold = 10000, on_disk = false.
C13_DefaultHnswConfig ==
    \A p \in Procs :
        LET pr == procs[p]
        IN  (/\ pr.op = "createCollection" /\ pr.pc = "rt_op"
             /\ ~config.hnsw.given /\ config.quantization.type = "none")
                => /\ pr.payload.vectors.size = pr.dimension
                   /\ pr.payload.vectors.distance = "Cosine"
                   /\ pr.payload.vectors.hnsw_config =
                          [m |-> 16, ef_construct |-> 100,
                           full_scan_threshold |-> 10000, on_disk |-> FALSE]

\* C13, amended: a dense create sends a vector space of size = dimension and
\* distance Cosine; the payload has an HNSW block exactly when HNSW options
\* are configured, and in it every option that is not given has its default
\* (m 16, ef_construct 100, full_scan_threshold 10000, on_disk false) and
\* every option that is given has the given value.
C13_HnswDefaultsWhenConfigured ==
    \A p \in Procs :
        LET pr == procs[p]
            block == pr.payload.vectors.hnsw_config
        IN  (pr.op = "createCollection" /\ pr.pc \in {"rt_op", "rt_sleep"})
                => /\ pr.payload.vectors.size = pr.dimension
                   /\ pr.payload.vectors.distance = "Cosine"
                   /\ ~config.hnsw.given => block = Absent
                   /\ config.hnsw.given =>
                          /\ block # Absent
                          /\ block.m = IF config.hnsw.m = 0 THEN 16 ELSE config.hnsw.m
                          /\ block.ef_construct = IF config.hnsw.ef_construct = 0 THEN 100
                                                  ELSE config.hnsw.ef_construct
                          /\ block.full_scan_threshold =
                                 IF config.hnsw.full_scan_threshold = 0 THEN 10000
                                 ELSE config.hnsw.full_scan_threshold
                          /\ block.on_disk = config.hnsw.on_disk

\* a dense create of dimension 768 under an HNSW configuration that gives no
\* option is on its way with the four defaults
C13_Witness ==
    \E p \in Procs :
        /\ procs[p].op = "createCollection" /\ procs[p].pc = "rt_op"
        /\ procs[p].dimension = 768
        /\ config.hnsw.given /\ config.hnsw.m = 0
        /\ config.quantization.type = "none"
        /\ procs[p].payload.vectors.hnsw_config =
               [m |-> 16, ef_construct |-> 100,
                full_scan_threshold |-> 10000, on_disk |-> FALSE]

\* a step that makes a hybridSearch call with an empty request list leaves
\* every tokenizer and every vocabulary file as it was
EmptyHybridSearchStep ==
    \A p \in Procs :
        (/\ CanCall(p) /\ procs'[p] # procs[p]
         /\ procs'[p].op = "hybridSearch" /\ procs'[p].requests = << >>)
            => tokenizers' = tokenizers /\ disk' = disk /\ remote' = remote

\* C14: hybridSearch with an empty request list returns the empty result
\* list, issues no remote call and changes no vocabulary.
C14_EmptyHybridSearch ==
    /\ [](\A p \in Procs :
             (/\ procs[p].op = "hybridSearch" /\ procs[p].requests = << >>
              /\ procs[p].pc = "done")
                 => /\ procs[p].outcome = "ok" /\ procs[p].ret = "empty"
                    /\ procs[p].calls = << >>)
    /\ [][EmptyHybridSearchStep]_vars

\* C14, amended: on a client whose initialization succeeded, hybridSearch
\* with an empty request list returns the empty result list; on a client
\* whose initialization failed it raises the initialization error; in both
\* cases it issues no remote call and changes no vocabulary.
C14_EmptyHybridSearchInitialized ==
    /\ [](\A p \in Procs :
             (/\ procs[p].op = "hybridSearch" /\ procs[p].requests = << >>)
                 => /\ procs[p].pc = "done"
                    /\ procs[p].calls = << >>
                    /\ client.state = "ready" =>
                           procs[p].outcome = "ok" /\ procs[p].ret = "empty"
                    /\ client.state = "failed" =>
                           procs[p].outcome = "error" /\ procs[p].error = InitError)
    /\ [][EmptyHybridSearchStep]_vars

\* an empty hybridSearch has returned the empty list while the tokenizer of
\* its collection holds a vocabulary
C14_Witness ==
    \E p \in Procs :
        /\ procs[p].op = "hybridSearch" /\ procs[p].requests = << >>
        /\ procs[p].pc = "done" /\ procs[p].outcome = "ok" /\ procs[p].ret = "empty"
        /\ tokenizers[procs[p].coll].live
        /\ DOMAIN tokenizers[procs[p].coll].vocabulary # {}

\* the field names of a dense request
DenseFields == {"vector", "dense"}

\* the number of occurrences of a word among the tokens of a text
Occurrences(text, word) ==
    Cardinality({i \in 1..Len(text) :
                    text[i].type = "word" /\ text[i].len >= 2 /\ text[i].normal = word})

\* the words of a text that are tokens
WordsOf(text) ==
    {text[i].normal : i \in {j \in 1..Len(text) : text[j].type = "word" /\ text[j].len >= 2}}

\* the pool is the encoding of the text under the vocabulary of the store:
\* one index per word of the text, the index the store holds for the word,
\* with the number of occurrences of the word as its value
EncodesText(pool, text, store) ==
    /\ Len(pool.query.indices) = Len(pool.terms)
    /\ Len(pool.query.values) = Len(pool.terms)
    /\ {pool.terms[k] : k \in 1..Len(pool.terms)} = WordsOf(text)
    /\ Len(pool.terms) = Cardinality(WordsOf(text))
    /\ \A k \in 1..Len(pool.terms) :
           /\ pool.terms[k] \in DOMAIN store.vocabulary
           /\ pool.query.indices[k] = store.vocabulary[pool.terms[k]]
           /\ pool.query.values[k] = Occurrences(text, pool.terms[k])

\* C15: hybrid candidate pools.  The query of a hybridSearch with a non-empty
\* request list carries one pool per request, in request order; the pool of a
\* request on a dense field addresses the dense space with the request's
\* query vector, the pool of any other request addresses the lexical space
\* with the encoding of the request's text; the size of each pool is
\* max(request.limit * 3, 100).
C15_CandidatePools ==
    \A p \in Procs :
        LET pr == procs[p]
            pools == pr.payload.prefetch
        IN  (pr.op = "hybridSearch" /\ pr.pc = "hs_query") =>
                /\ Len(pools) = Len(pr.requests)
                /\ \A i \in 1..Len(pr.requests) :
                       LET request == pr.requests[i]
                       IN  /\ pools[i].limit = IF request.limit * 3 >= 100
                                               THEN request.limit * 3 ELSE 100
                           /\ request.anns_field \in DenseFields =>
                                  /\ pools[i].using = "dense"
                                  /\ pools[i].query = request.vector
                           /\ request.anns_field \notin DenseFields =>
                                  /\ pools[i].using = "sparse"
                                  /\ tokenizers[pr.coll].live
                                  /\ EncodesText(pools[i], request.text, tokenizers[pr.coll])

\* a query with a dense pool of 150 candidates and, after it, a lexical pool
\* of 120 candidates that holds an index is in flight
C15_Witness ==
    \E p \in Procs :
        /\ procs[p].op = "hybridSearch" /\ procs[p].pc = "hs_query"
        /\ Len(procs[p].payload.prefetch) = 2
        /\ procs[p].payload.prefetch[1].using = "dense"
        /\ procs[p].payload.prefetch[1].limit = 150
        /\ procs[p].payload.prefetch[1].query = <<7, 9>>
        /\ procs[p].payload.prefetch[2].using = "sparse"
        /\ procs[p].payload.prefetch[2].limit = 120
        /\ Len(procs[p].payload.prefetch[2].query.indices) = 1

\* C16: hybrid fused query.  A hybridSearch with a non-empty request list
\* issues one remote call, a query that carries all its pools, asks for
\* reciprocal-rank fusion and for the final limit of the caller (10 when the
\* caller gives none), and carries the filter of the caller unchanged (none
\* when the caller gives none).  (The one call that issues no query is the
\* call that ensureInitialized rejects before anything is built.)
C16_FusedQuery ==
    \A p \in Procs :
        LET pr == procs[p]
        IN  (pr.op = "hybridSearch" /\ pr.requests # << >>) =>
                /\ pr.pc \in {"hs_query", "done"}
                /\ \/ pr.calls = <<"query">>
                   \/ /\ pr.calls = << >>
                      /\ pr.pc = "done" /\ pr.outcome = "error" /\ pr.error = InitError
                /\ pr.pc = "hs_query" =>
                       /\ Len(pr.payload.prefetch) = Len(pr.requests)
                       /\ pr.payload.fusion = "rrf"
                       /\ pr.payload.limit = IF pr.options.limit = 0 THEN 10
                                              ELSE pr.options.limit
                       /\ pr.payload.filter = pr.options.filterExpr

\* a fused query over two pools with the limit 5 and the filter of the caller
\* is in flight
C16_Witness ==
    \E p \in Procs :
        /\ procs[p].op = "hybridSearch" /\ procs[p].pc = "hs_query"
        /\ procs[p].options = Options(5, "f1")
        /\ Len(procs[p].payload.prefetch) = 2
        /\ procs[p].payload.limit = 5 /\ procs[p].payload.filter = "f1"

\* the operations whose remote errors reach the caller
PropagatingOps ==
    {"createCollection", "createHybridCollection", "dropCollection", "listCollections",
     "insert", "insertHybrid", "search", "hybridSearch", "delete", "query"}

\* the last remote call the call made was rejected
LastCallRejected(pr) == pr.rejected # NoError /\ pr.rejected.serial = Len(pr.calls)

\* the rejected call is the existence probe of insert or insertHybrid
IsExistenceProbe(pr) == pr.op \in {"insert", "insertHybrid"} /\ pr.rejected.serial = 1

\* the rejected call is the points count that insertHybrid fetches after its
\* upsert
IsPointsCountCheck(pr) ==
    /\ pr.op = "insertHybrid" /\ pr.rejected.serial > 1
    /\ pr.calls[pr.rejected.serial] = "getCollection"
    /\ pr.calls[pr.rejected.serial - 1] = "upsert"

\* C17: errors propagate unmodified.  When the remote call that ends a
\* create, createHybrid, drop, list, insert, insertHybrid, search,
\* hybridSearch, delete or query is rejected (for the creates: the last
\* attempt), the call raises that very error object; only the rejection of an
\* existence probe is not passed on.
C17_ErrorsPropagate ==
    \A p \in Procs :
        LET pr == procs[p]
        IN  (/\ pr.op \in PropagatingOps /\ pr.pc = "done"
             /\ LastCallRejected(pr) /\ ~IsExistenceProbe(pr))
                => pr.outcome = "error" /\ pr.error = pr.rejected

\* C17, amended: the same, with one more exception: the rejection of the
\* points count that insertHybrid fetches after an acknowledged upsert is
\* logged and dropped, and the call goes on to save the vocabulary and
\* returns.
C17_ErrorsPropagateButChecks ==
    \A p \in Procs :
        LET pr == procs[p]
        IN  (pr.op \in PropagatingOps /\ pr.pc = "done" /\ LastCallRejected(pr)) =>
                IF IsExistenceProbe(pr)
                THEN pr.outcome = "error" /\ pr.error.msg = MsgDoesNotExist
                ELSE IF IsPointsCountCheck(pr)
                THEN pr.outcome = "ok" /\ pr.saves = 1
                ELSE pr.outcome = "error" /\ pr.error = pr.rejected

\* an insertHybrid has raised the error object its upsert was rejected with
C17_Witness ==
    \E p \in Procs :
        /\ procs[p].op = "insertHybrid" /\ procs[p].pc = "done"
        /\ procs[p].outcome = "error"
        /\ procs[p].error = Error(MsgNetwork, "upsert", 3)
        /\ procs[p].rejected = procs[p].error

\* C18: snapshot round trip.  A store constructed from the snapshot that
\* saveVocabulary wrote has the term -> index table and the nextIndex the
\* saved store had, the empty table included.
C18_SnapshotRoundTrip ==
    \A p \in Procs :
        LET pr == procs[p]
        IN  (pr.op = "BM25Tokenizer" /\ pr.saved.written /\ pr.seen = "ok") =>
                /\ tokenizers[pr.coll].live
                /\ tokenizers[pr.coll].vocabulary = pr.saved.vocabulary
                /\ tokenizers[pr.coll].nextIndex = pr.saved.nextIndex

\* a store with two terms was saved and a store constructed from its snapshot
C18_Witness ==
    \E p \in Procs :
        /\ procs[p].op = "BM25Tokenizer" /\ procs[p].saved.written
        /\ procs[p].seen = "ok"
        /\ Cardinality(DOMAIN procs[p].saved.vocabulary) = 2
        /\ procs[p].saved.nextIndex = 2
        /\ tokenizers[procs[p].coll].loaded

\* C19: load fallback.  A store constructed when its file does not exist, or
\* exists and cannot be read or parsed, is constructed without an error and
\* has the empty table and the counter 0.
C19_LoadFallback ==
    \A p \in Procs :
        LET pr == procs[p]
        IN  (pr.op = "BM25Tokenizer" /\ pr.seen \in {"absent", "corrupt"}) =>
                /\ pr.outcome = "ok"
                /\ tokenizers[pr.coll].live
                /\ tokenizers[pr.coll].vocabulary = EmptyVocabulary
                /\ tokenizers[pr.coll].nextIndex = 0

\* a snapshot with a term was written and then cut short, and a store was
\* constructed on it
C19_Witness ==
    \E p \in Procs :
        /\ procs[p].op = "BM25Tokenizer" /\ procs[p].seen = "corrupt"
        /\ procs[p].outcome = "ok"
        /\ procs[p].saved.written /\ DOMAIN procs[p].saved.vocabulary # {}
        /\ tokenizers[procs[p].coll].live
        /\ disk[tokenizers[procs[p].coll].vocabularyPath].state = "corrupt"

\* the position of the first occurrence of a word among the tokens of a text
FirstOccurrence(text, word) ==
    CHOOSE i \in 1..Len(text) :
        /\ text[i].type = "word" /\ text[i].len >= 2 /\ text[i].normal = word
        /\ \A j \in 1..(i - 1) :
               ~(text[j].type = "word" /\ text[j].len >= 2 /\ text[j].normal = word)

RECURSIVE SumOf(_)
SumOf(values) == IF values = << >> THEN 0 ELSE Head(values) + SumOf(Tail(values))

\* C20: encode output shape.  generateSparseVector returns one (index, value)
\* pair per distinct token of the text, in the order of the tokens' first
\* occurrences; indices and values have the same length, the indices are
\* pairwise distinct, each is the index the store holds for its token, each
\* value is the number of occurrences of its token, and the values add up to
\* the number of tokens.
C20_EncodeShape ==
    \A p \in Procs :
        LET pr == procs[p]
            enc == pr.encoded
            n == Len(enc.terms)
        IN  pr.op = "generateSparseVector" =>
                /\ Len(enc.indices) = n /\ Len(enc.values) = n
                /\ n = Cardinality(WordsOf(pr.text))
                /\ {enc.terms[k] : k \in 1..n} = WordsOf(pr.text)
                /\ \A i, j \in 1..n :
                       i < j => FirstOccurrence(pr.text, enc.terms[i])
                                    < FirstOccurrence(pr.text, enc.terms[j])
                /\ \A i, j \in 1..n : enc.indices[i] = enc.indices[j] => i = j
                /\ \A k \in 1..n :
                       /\ enc.indices[k] = tokenizers[pr.coll].vocabulary[enc.terms[k]]
                       /\ enc.values[k] = Occurrences(pr.text, enc.terms[k])
                /\ SumOf(enc.values) =
                       Cardinality({i \in 1..Len(pr.text) :
                                       pr.text[i].type = "word" /\ pr.text[i].len >= 2})

\* a text of two words was encoded in the order of the words, which is not
\* the order of their indices
C20_Witness ==
    \E p \in Procs :
        /\ procs[p].op = "generateSparseVector"
        /\ procs[p].text = <<LexBar, LexFoo>>
        /\ procs[p].encoded.indices = <<1, 0>>
        /\ procs[p].encoded.values = <<1, 1>>

\* a step that encodes an empty or white-space-only text leaves the store
\* as it was
BlankEncodeStep ==
    \A p \in Procs :
        (/\ procs'[p] # procs[p]
         /\ procs'[p].op = "generateSparseVector" /\ IsBlank(procs'[p].text))
            => tokenizers' = tokenizers /\ disk' = disk

\* C21: generateSparseVector of an empty or white-space-only text returns the
\* empty sparse vector (indices and values of length 0) without calling
\* tokenize, and leaves the vocabulary table and nextIndex unchanged.
C21_BlankEncode ==
    /\ [](\A p \in Procs :
             (procs[p].op = "generateSparseVector" /\ IsBlank(procs[p].text))
                 => /\ Len(procs[p].encoded.indices) = 0
                    /\ Len(procs[p].encoded.values) = 0
                    /\ ~procs[p].encoded.tokenized)
    /\ [][BlankEncodeStep]_vars

\* a white-space-only text was encoded on a store that holds terms
C21_Witness ==
    \E p \in Procs :
        /\ procs[p].op = "generateSparseVector"
        /\ procs[p].text = <<LexSpace, LexSpace>>
        /\ procs[p].encoded.indices = << >>
        /\ tokenizers[procs[p].coll].nextIndex = 2

(***************************************************************************)
(* Searches on a hybrid and on a dense collection that the service answers *)
(* with every list of up to MaxPoints points.                              *)
(***************************************************************************)
InitResults ==
    /\ config = [url |-> "http", vocabularyPath |-> NoPath, hnsw |-> NoHnsw,
                 quantization |-> NoQuantization, sparse |-> NoSparseIndex]
    /\ client = Initialize(config)
    /\ tokenizers = [c \in Collections |-> NoStore]
    /\ disk = [f \in AllPaths |-> NoFile]
    /\ remote = [c \in Collections |->
                    [kind |-> IF c \in Served THEN "hybrid" ELSE "dense",
                     points |-> NoPoints]]
    /\ procs = [p \in Procs |-> IdleProc]
    /\ yielded = [c \in Collections |-> [t \in Terms |-> {}]]

NextResults ==
    \/ \E p \in Callers, c \in Collections : CallSearch(p, c, NoOptions)
    \/ \E p \in Callers : \E out \in Outcomes, r \in PointLists :
           SearchReturn(p, out, r)
    \/ \E p \in Callers, c \in Served :
           CallHybridSearch(p, c, <<ReqDense, ReqFoo>>, NoOptions)
    \/ \E p \in Callers : \E out \in Outcomes, r \in QueryResponses :
           HybridSearchReturn(p, out, r)

SpecResults == InitResults /\ [][NextResults]_vars

\* C22: result mapping.  search and hybridSearch return one result per point
\* the service returned, in the order of the service; the document of each
\* result has the five well-known fields as the payload has them, a metadata
\* map with every other key of the payload and none of the five, and an
\* empty vector.
C22_ResultMapping ==
    \A p \in Procs :
        LET pr == procs[p]
        IN  (pr.op \in {"search", "hybridSearch"} /\ pr.ret = "results") =>
                /\ Len(pr.results) = Len(pr.received)
                /\ \A i \in 1..Len(pr.received) :
                       LET point == pr.received[i]
                           payload == IF point.hasPayload THEN point.payload
                                      ELSE EmptyPayload
                           document == pr.results[i].document
                       IN  /\ document.id = point.id.text
                           /\ document.vector = << >>
                           /\ \A k \in KnownFields :
                                  document[k] = IF k \in DOMAIN payload
                                                THEN payload[k] ELSE Undefined
                           /\ DOMAIN document.metadata = DOMAIN payload \ KnownFields
                           /\ \A k \in DOMAIN document.metadata :
                                  document.metadata[k] = payload[k]

\* a hybrid search was answered with two points, the lower score first, the
\* first with two keys beside the five fields
C22_Witness ==
    \E p \in Procs :
        /\ procs[p].op = "hybridSearch" /\ procs[p].ret = "results"
        /\ procs[p].received = <<PtFull, PtPlain>>
        /\ Len(procs[p].results) = 2
        /\ DOMAIN procs[p].results[1].document.metadata = {"language", "chunkIndex"}

(***************************************************************************)
(* The helpers called in any order by two callers, on a client that is     *)
(* ready or whose initialization failed.                                   *)
(***************************************************************************)
InitHelpers ==
    /\ config \in [url : {"http", "malformed"}, vocabularyPath : {NoPath},
                    hnsw : {NoHnsw}, quantization : {NoQuantization},
                    sparse : {NoSparseIndex}]
    /\ client = Initialize(config)
    /\ tokenizers = [c \in Collections |-> NoStore]
    /\ disk = [f \in AllPaths |-> NoFile]
    /\ remote = [c \in Collections |-> [kind |-> "none", points |-> NoPoints]]
    /\ procs = [p \in Procs |-> IdleProc]
    /\ yielded = [c \in Collections |-> [t \in Terms |-> {}]]

\* a helper returns in the stretch it is called in
Helped(p, op, input) ==
    [Start(op, << >>) EXCEPT !.pc = "done", !.outcome = "ok", !.input = input]

CallBuildExtensionFilter(p, extensions) ==
    /\ CanCall(p)
    /\ procs' = [procs EXCEPT ![p] =
          [Helped(p, "buildExtensionFilter", extensions) EXCEPT
              !.filter = BuildExtensionFilter(extensions)]]
    /\ UNCHANGED <<config, client, tokenizers, disk, remote, yielded>>

CallBuildPathFilter(p, relativePath) ==
    /\ CanCall(p)
    /\ procs' = [procs EXCEPT ![p] =
          [Helped(p, "buildPathFilter", relativePath) EXCEPT
              !.filter = BuildPathFilter(relativePath)]]
    /\ UNCHANGED <<config, client, tokenizers, disk, remote, yielded>>

\* the calls of generateId that the calls on record have made
ServedIds == Cardinality({q \in Procs : procs[q].op = "generateId"})

CallGenerateId(p, originalId) ==
    /\ CanCall(p)
    /\ procs' = [procs EXCEPT ![p] =
          [Helped(p, "generateId", Arg(TRUE, << >>, originalId)) EXCEPT
              !.uuid = GenerateId(originalId, ServedIds)]]
    /\ UNCHANGED <<config, client, tokenizers, disk, remote, yielded>>

NextHelpers ==
    \/ \E p \in Procs, e \in ExtensionLists : CallBuildExtensionFilter(p, e)
    \/ \E p \in Procs, r \in Paths : CallBuildPathFilter(p, r)
    \/ \E p \in Procs, o \in OriginalIds : CallGenerateId(p, o)

SpecHelpers == InitHelpers /\ [][NextHelpers]_vars

\* C23: buildExtensionFilter and buildPathFilter return the empty filter
\* object exactly when their input is empty (or not given); a non-empty
\* extension list gives one membership condition on fileExtension over
\* exactly the given values, a non-empty path one equality condition on
\* relativePath with exactly that path.
C23_FilterBuilder ==
    \A p \in Procs :
        LET pr == procs[p]
        IN  /\ pr.op = "buildExtensionFilter" =>
                 LET empty == ~pr.input.given \/ pr.input.list = << >>
                 IN  /\ (pr.filter = NoFilter) <=> empty
                     /\ ~empty =>
                            /\ pr.filter.hasMust /\ Len(pr.filter.must) = 1
                            /\ pr.filter.must[1].key = "fileExtension"
                            /\ pr.filter.must[1].match = "any"
                            /\ {pr.filter.must[1].any[i] :
                                    i \in 1..Len(pr.filter.must[1].any)}
                                   = {pr.input.list[i] : i \in 1..Len(pr.input.list)}
            /\ pr.op = "buildPathFilter" =>
                 LET empty == ~pr.input.given \/ pr.input.text = ""
                 IN  /\ (pr.filter = NoFilter) <=> empty
                     /\ ~empty =>
                            /\ pr.filter.hasMust /\ Len(pr.filter.must) = 1
                            /\ pr.filter.must[1].key = "relativePath"
                            /\ pr.filter.must[1].match = "value"
                            /\ pr.filter.must[1].value = pr.input.text

\* one caller built the filter of two extensions, the other the filter of
\* the empty path
C23_Witness ==
    /\ procs["p1"].op = "buildExtensionFilter"
    /\ procs["p1"].input.list = <<".ts", ".py">>
    /\ procs["p1"].filter.must[1].any = <<".ts", ".py">>
    /\ procs["p2"].op = "buildPathFilter"
    /\ procs["p2"].input = Arg(TRUE, << >>, "")
    /\ procs["p2"].filter = NoFilter

\* C24: generateId is a deterministic function of its input: two calls with
\* the same input return the same id whatever the state of the client and
\* the calls made before; the id is the 32 hexadecimal digits of the digest
\* of the input, in order, in five groups of 8, 4, 4, 4 and 12 digits
\* separated by dashes.
C24_StableId ==
    \A p \in Procs :
        LET pr == procs[p]
            hash == Md5Hex(pr.input.text)
        IN  pr.op = "generateId" =>
                /\ Len(hash) = 32 /\ Len(pr.uuid) = 36
                /\ \A i \in 1..36 : (pr.uuid[i] = "-") <=> (i \in {9, 14, 19, 24})
                /\ SelectSeq(pr.uuid, LAMBDA d : d # "-") = hash
                /\ \A q \in Procs :
                       (procs[q].op = "generateId" /\ procs[q].input = pr.input)
                           => procs[q].uuid = pr.uuid

\* both callers have the id of the same input, made one after the other on
\* a client whose initialization failed
C24_Witness ==
    /\ client.state = "failed"
    /\ procs["p1"].op = "generateId" /\ procs["p2"].op = "generateId"
    /\ procs["p1"].input.text = "src/a.ts:1-2:foo"
    /\ procs["p2"].input = procs["p1"].input
    /\ SubSeq(procs["p1"].uuid, 1, 9) = SubSeq(DigestFoo, 1, 8) \o <<"-">>

\* the call has issued its upsert
UpsertIssued(pr) == \E i \in 1..Len(pr.calls) : pr.calls[i] = "upsert"

\* the upsert of an insert comes second, after a probe that was not rejected;
\* the upsert of an insertHybrid comes third, after the probe and the
\* metadata, neither rejected, for a collection with a sparse space and a
\* batch of documents that all have a non-empty array vector
UpsertGated ==
    \A p \in Procs :
        LET pr == procs[p]
        IN  /\ (pr.op = "insert" /\ UpsertIssued(pr)) =>
                   /\ SubSeq(pr.calls, 1, 2) = <<"getCollection", "upsert">>
                   /\ pr.docs # << >>
                   /\ pr.pc = "in_upsert" => pr.rejected = NoError
            /\ (pr.op = "insertHybrid" /\ UpsertIssued(pr)) =>
                   /\ SubSeq(pr.calls, 1, 3) = <<"getCollection", "getCollection", "upsert">>
                   /\ pr.docs # << >>
                   /\ \A i \in 1..Len(pr.docs) : pr.docs[i].vector = "array"
                   /\ pr.pc = "ih_upsert" =>
                          /\ pr.rejected = NoError
                          /\ remote[pr.coll].kind = "hybrid"
                          /\ Len(pr.points) = Len(pr.docs)

\* the points of a collection change only when it is dropped or when the
\* upsert of a hybrid insert is answered, and then by the whole batch
PointsStep ==
    \A c \in Collections :
        remote'[c].points # remote[c].points =>
            \/ remote'[c] = [kind |-> "none", points |-> NoPoints]
            \/ \E p \in Procs :
                   /\ procs[p].op = "insertHybrid" /\ procs[p].coll = c
                   /\ procs[p].pc = "ih_upsert" /\ procs'[p].pc = "ih_verify"
                   /\ Len(procs[p].points) = Len(procs[p].docs)
                   /\ remote'[c].points = remote[c].points \cup PairsOf(procs[p].points)

\* C25: upsert gating.  insert and insertHybrid issue the upsert only after
\* the existence probe of the same call succeeded, insertHybrid only after
\* the metadata showed the "sparse" space and every document of the batch
\* has a non-empty array vector as well; in every other case an error is
\* raised, no upsert is issued and no point of the batch reaches the
\* service.
C25_UpsertGating ==
    /\ [](UpsertGated /\
          \A p \in Procs :
              (/\ procs[p].op \in {"insert", "insertHybrid"} /\ procs[p].pc = "done"
               /\ ~UpsertIssued(procs[p]))
                  => procs[p].outcome = "error")
    /\ [][PointsStep]_vars

\* C25 as the code has it: as above for a batch that is not empty; an empty
\* batch returns at once, without an error and without a remote call.
C25_UpsertGatingOfBatches ==
    /\ [](UpsertGated /\
          \A p \in Procs :
              (/\ procs[p].op \in {"insert", "insertHybrid"} /\ procs[p].pc = "done"
               /\ ~UpsertIssued(procs[p]))
                  => IF procs[p].docs = << >>
                     THEN procs[p].outcome = "ok" /\ procs[p].calls = << >>
                     ELSE procs[p].outcome = "error")
    /\ [][PointsStep]_vars

\* a hybrid insert of two documents, both encoded, has its upsert in flight
\* after a probe and a metadata call that were answered
C25_Witness ==
    \E p \in Procs :
        /\ procs[p].op = "insertHybrid" /\ procs[p].pc = "ih_upsert"
        /\ Len(procs[p].docs) = 2 /\ Len(procs[p].points) = 2
        /\ procs[p].calls = <<"getCollection", "getCollection", "upsert">>

\* a step that changes a vocabulary file is the last step of a hybrid insert
\* whose upsert was acknowledged or completed, and its only save
SnapshotStep ==
    disk' # disk =>
        \E p \in Procs :
            /\ procs[p].op = "insertHybrid" /\ procs[p].pc = "ih_verify"
            /\ procs[p].status \in {"acknowledged", "completed"}
            /\ procs[p].saves = 0 /\ procs'[p].saves = 1
            /\ procs'[p].pc = "done"

\* C26: snapshot write ordering.  insertHybrid writes the vocabulary
\* snapshot at most once per call, and only after the upsert of the call
\* returned with the status acknowledged or completed; a hybrid insert that
\* raises, a hybrid insert of an empty batch and every hybridSearch write no
\* snapshot.
C26_SnapshotOrdering ==
    /\ [](\A p \in Procs :
             LET pr == procs[p]
             IN  /\ pr.saves <= 1
                 /\ pr.saves = 1 =>
                        /\ pr.op = "insertHybrid"
                        /\ pr.status \in {"acknowledged", "completed"}
                        /\ SubSeq(pr.calls, 1, 3) = <<"getCollection", "getCollection", "upsert">>
                 /\ (pr.op = "insertHybrid" /\ pr.outcome = "error") => pr.saves = 0
                 /\ (pr.op = "insertHybrid" /\ pr.docs = << >>) => pr.saves = 0
                 /\ pr.op = "hybridSearch" => pr.saves = 0)
    /\ [][SnapshotStep]_vars

\* a hybrid insert was answered "acknowledged", its points count could not
\* be fetched, and it has written the snapshot with the terms of its batch
C26_Witness ==
    \E p \in Procs :
        /\ procs[p].op = "insertHybrid" /\ procs[p].pc = "done"
        /\ procs[p].status = "acknowledged" /\ procs[p].saves = 1
        /\ procs[p].rejected # NoError
        /\ disk[TokenizerPath(procs[p].coll)].state = "ok"
        /\ DOMAIN disk[TokenizerPath(procs[p].coll)].vocabulary # {}

\* the (term, index) pairs of a vocabulary file
SnapshotPairs(file) == {<<t, file.vocabulary[t]>> : t \in DOMAIN file.vocabulary}

\* a step in which a hybrid insert saves: the store it saves is the one the
\* registry has held since the batch was encoded, and the file it writes
\* has every pair of the points it upserted
SaveStep ==
    \A p \in Procs :
        (/\ procs[p].op = "insertHybrid" /\ procs[p].pc = "ih_verify"
         /\ procs'[p].pc = "done" /\ procs'[p].saves = 1)
            => /\ tokenizers[procs[p].coll].live
               /\ PairsOf(procs[p].points)
                      \subseteq SnapshotPairs(disk'[TokenizerPath(procs[p].coll)])

\* C27: the store that insertHybrid saves after an acknowledged upsert is
\* the store that encoded the documents of the batch, also when a drop of
\* the collection completes while the insert is suspended on a remote call;
\* so every (term, index) pair of the upserted points is in the snapshot the
\* call writes.
C27_SavesEncodingStore == [][SaveStep]_vars

(***************************************************************************)
(* Two hybrid inserts in flight through one client on one collection, and  *)
(* nothing else: no drop, no restart.                                      *)
(***************************************************************************)
NextPair ==
    \/ \E p \in Procs, c \in Served, d \in ConcInserts : CallInsertHybrid(p, c, d)
    \/ \E p \in Procs : \E out \in Outcomes : InsertHybridProbeReturn(p, out)
    \/ \E p \in Procs : \E out \in Outcomes : InsertHybridInfoReturn(p, out)
    \/ \E p \in Procs : \E out \in Outcomes : InsertHybridUpsertReturn(p, out)
    \/ \E p \in Procs : \E out \in Outcomes : InsertHybridVerifyReturn(p, out)

SpecPair == InitConc /\ [][NextPair]_vars

\* no index was given to two terms and no term was given two indices
OneIndexPerTerm(c) ==
    /\ \A t \in Terms : Cardinality(yielded[c][t]) <= 1
    /\ \A t, u \in Terms : t # u => yielded[c][t] \cap yielded[c][u] = {}

\* the vocabulary file of the collection has every assignment made so far
SnapshotHasAll(c) ==
    \A t \in Terms :
        yielded[c][t] # {} =>
            /\ disk[TokenizerPath(c)].state = "ok"
            /\ t \in DOMAIN disk[TokenizerPath(c)].vocabulary
            /\ yielded[c][t] = {disk[TokenizerPath(c)].vocabulary[t]}

\* both calls are hybrid inserts on the collection that have returned
BothReturned(c) ==
    \A p \in Procs :
        /\ procs[p].op = "insertHybrid" /\ procs[p].coll = c
        /\ procs[p].pc = "done" /\ procs[p].outcome = "ok"

C29_RaisingInsertChangesNothing ==
    \A p \in Callers :
        LET pr == procs[p]
            now == GetTokenizer(tokenizers, pr.coll)[pr.coll]
        IN  (pr.op = "insertHybrid" /\ pr.pc = "done" /\ pr.outcome = "error") =>
                /\ now.vocabulary = pr.before.vocabulary
                /\ now.nextIndex = pr.before.nextIndex
                /\ disk[now.vocabularyPath] = pr.before.file

====
